---- MODULE Spec2Model ----
(***************************************************************************)
(* crow-agent: the class-string transformation engine (core/colors.ts),    *)
(* the batch transformer and file writer (core/transformer.ts), the        *)
(* add-dark-mode command and the Tailwind configuration patcher.           *)
(*                                                                         *)
(* Representation of strings.  A class string is the sequence of its       *)
(* fields, i.e. the pieces between single whitespace characters: n fields  *)
(* stand for a string with n-1 separators, and the empty field Empty       *)
(* appears between two adjacent separators and for leading or trailing     *)
(* whitespace.  A field (token) is the sequence of its variant prefixes,   *)
(* each ending in ":", followed by the utility name, so that               *)
(* "dark:bg-gray-900" is <<"dark:", "bg-gray-900">> and prefix and         *)
(* substring tests on "dark:" are computed.  The empty string is <<>>.     *)
(* Table lookups (colorMappings[k], BRAND_PRESETS[id]) are own-key         *)
(* lookups.                                                                *)
(***************************************************************************)
EXTENDS Integers, Sequences, FiniteSets, TLC

VARIABLES
    catalog,    \* which version of themes/presets the build links
    input,      \* the class string handed to transformTailwindClasses
    themeA,     \* themeId of the first call ("" = no themeId)
    themeB,     \* themeId of the second and third call
    out1,       \* transformTailwindClasses(input, themeA)
    out2,       \* transformTailwindClasses(out1, themeB)
    out3,       \* transformTailwindClasses(out2, themeB)
    cpc,        \* number of calls made: "start", "once", "twice", "thrice"
    files,      \* the ComponentFile list handed to transformFiles
    batchTheme, \* the themeId handed to transformFiles
    disk,       \* the component files on disk, by path
    summary,    \* the TransformationSummary transformFiles returned
    bpc,        \* "start", "transformed" (transformFiles returned), "applied"
    configFile, \* tailwind.config.js on disk
    cssFile,    \* the Tailwind stylesheet on disk
    cfgArgs,    \* the arguments of updateTailwindConfig
    ret1,       \* outcome of the first updateTailwindConfig call
    ret2,       \* outcome of the second call with the same arguments
    cfgpc,      \* "start", "once", "twice"
    opts,       \* the options handed to addDarkModeCommand
    framework,  \* the framework detectFramework finds in the project
    analysis,   \* the ProjectAnalysis the command works from
    backups,    \* the backup directory under the project and the copies in it
    toggleFile, \* whether the theme toggle component file exists
    layoutPatched, \* whether auto-placement has edited a layout file
    commits,    \* git commits made by the command
    cmdpc,      \* the step addDarkModeCommand has reached
    commandString, \* the natural-language command, as its words
    parsed,     \* the ParsedCommand parseCommand returned
    validation, \* what validateCommand returned for it
    ppc,        \* "start", "parsed", "validated"
    brandFiles, \* the texts extractBrandColors scans, in scan order
    brandColorMap, \* the Map of colour usage, in insertion order
    processedColors, \* what processExtractedColors returned
    brandProfile, \* the BrandColorProfile returned
    brandpc,    \* "start", "extracted", "processed", "done", "throws"
    features,   \* the DesignFeatures the classifier works on
    archetype,  \* what classifyArchetype returned
    designConfidence, \* designSystem.confidence
    clfpc,      \* "start", "classified", "done"
    recProfile, \* the BrandColorProfile recommendTheme obtained
    recArchetype, \* enhancedAnalysis.designSystem.archetype
    themeScores, \* the scores array
    recommendation, \* the SmartRecommendation returned
    recpc, \* "start", "scored", "done", "throws"
    valTheme, \* the preset handed to validateSingleTheme
    scoreArg, \* the argument of getGradeFromScore
    gradeOut, \* what getGradeFromScore returned
    valResult, \* the ThemeValidationResult returned
    vpc, \* "start", "graded", "done"
    proceed, \* the answer given in checkExistingSetup
    handledExistingSetup, \* the wizard's flag
    midAction, \* the last answer given in checkForMidProcessDarkMode
    wizpc, \* "start", "checked", "collected", "confirmed", "implementing", "success", "cancelled", "exited"
    passFile, \* framework and extension of the file
    passParses, \* the dialect parser accepts the content
    passTheme, \* the themeId of both calls
    passContent, \* the file content
    pass1, \* result of the first transformFile
    pass2, \* result of the second transformFile
    passpc, \* "start", "once", "twice"
    tgKind, \* which generated toggle the page uses
    storedTheme, \* localStorage['theme']
    prefersDark, \* matchMedia('(prefers-color-scheme: dark)').matches
    rootDark, \* document.documentElement has the class dark
    tgTheme, \* the toggle's theme
    tgSaved, \* the savedTheme read during initialisation
    prevTheme, \* the theme before the last toggle
    clicks, \* number of toggle operations so far
    tgpc, \* "start", "ready"
    layout, \* the layout file on disk
    layoutBefore, \* the layout file before the last run
    placement, \* the AutoPlacementResult of the last run
    layoutWrites, \* number of fs.writeFile calls on the layout
    placeRuns \* number of runs so far, -1 when the placement is not in use

clsVars == <<catalog, input, themeA, themeB, out1, out2, out3, cpc>>
batchVars == <<files, batchTheme, disk, summary, bpc>>
cfgVars == <<configFile, cssFile, cfgArgs, ret1, ret2, cfgpc>>

cmdVars == <<opts, framework, analysis, backups, toggleFile, layoutPatched, commits, cmdpc>>

parserVars == <<commandString, parsed, validation, ppc>>

\* the variables of core/ and of the add-dark-mode command
coreVars == <<clsVars, batchVars, cfgVars, cmdVars>>

brandVars == <<brandFiles, brandColorMap, processedColors, brandProfile, brandpc>>

\* the variables of the other entry points
classifierVars == <<features, archetype, designConfidence, clfpc>>

recommenderVars == <<recProfile, recArchetype, themeScores, recommendation, recpc>>

validatorVars == <<valTheme, scoreArg, gradeOut, valResult, vpc>>

wizardVars == <<proceed, handledExistingSetup, midAction, wizpc>>

passVars == <<passFile, passParses, passTheme, passContent, pass1, pass2, passpc>>

toggleVars == <<tgKind, storedTheme, prefersDark, rootDark, tgTheme, tgSaved, prevTheme, clicks, tgpc>>

placeVars == <<layout, layoutBefore, placement, layoutWrites, placeRuns>>

libVars == <<parserVars, brandVars, classifierVars, recommenderVars, validatorVars, wizardVars, passVars, toggleVars, placeVars>>

\* the variables each entry point leaves alone
notParserVars == <<coreVars, brandVars, classifierVars, recommenderVars, validatorVars, wizardVars, passVars, toggleVars, placeVars>>
notBrandVars == <<coreVars, parserVars, classifierVars, recommenderVars, validatorVars, wizardVars, passVars, toggleVars, placeVars>>
notClassifierVars == <<coreVars, parserVars, brandVars, recommenderVars, validatorVars, wizardVars, passVars, toggleVars, placeVars>>
notRecommenderVars == <<coreVars, parserVars, brandVars, classifierVars, validatorVars, wizardVars, passVars, toggleVars, placeVars>>
notValidatorVars == <<coreVars, parserVars, brandVars, classifierVars, recommenderVars, wizardVars, passVars, toggleVars, placeVars>>
notWizardVars ==
    <<clsVars, batchVars, cfgVars, framework, analysis, backups, toggleFile, layoutPatched,
      commits, parserVars, brandVars, classifierVars, recommenderVars, validatorVars,
      passVars, toggleVars, placeVars>>
notPassVars == <<coreVars, parserVars, brandVars, classifierVars, recommenderVars, validatorVars, wizardVars, toggleVars, placeVars>>
notToggleVars == <<coreVars, parserVars, brandVars, classifierVars, recommenderVars, validatorVars, wizardVars, passVars, placeVars>>
notPlaceVars == <<coreVars, parserVars, brandVars, classifierVars, recommenderVars, validatorVars, wizardVars, passVars, toggleVars>>

vars == <<coreVars, libVars>>

-----------------------------------------------------------------------------
(* Bounds *)

MaxFields == 3      \* longest class string, in fields
MaxFiles == 2       \* longest ComponentFile list
MaxChunks == 2      \* longest configuration file, in chunks
MaxWords == 3       \* longest free-form command, in words
MaxLiterals == 3    \* most colour literals in a generated file
MaxSegments == 2    \* most segments of a file content transformed twice
MaxClicks == 3      \* most toggle operations on one page
MaxElements == 3    \* most JSX elements of a layout file
MaxRuns == 3        \* most runs of the auto-placement on one layout

-----------------------------------------------------------------------------
(* Tokens and class strings *)

Empty == <<>>
Cls(u) == <<u>>
Dark(u) == <<"dark:", u>>
NoTheme == ""

\* String.prototype.startsWith('dark:') on one token
startsWithDark(tok) == Len(tok) >= 1 /\ tok[1] = "dark:"

\* String.prototype.includes('dark:') on one token
includesDark(tok) == \E j \in 1..Len(tok) : tok[j] = "dark:"

\* classString.split(/\s+/).filter(Boolean)
split(classString) == SelectSeq(classString, LAMBDA f : f # Empty)

\* Array.prototype.join(' ') of strings none of which is empty
RECURSIVE join(_)
join(strs) == IF strs = <<>> THEN <<>> ELSE Head(strs) \o join(Tail(strs))

-----------------------------------------------------------------------------
(* core/colors.ts: the generic Token Mapping Table.  Every entry has the   *)
(* form  'k': 'k dark:d' ; the tables below hold d for each k.             *)

backgroundMappings ==
    "bg-white" :> "bg-gray-900" @@ "bg-gray-50" :> "bg-gray-800"
    @@ "bg-gray-100" :> "bg-gray-800" @@ "bg-gray-200" :> "bg-gray-700"
    @@ "bg-gray-300" :> "bg-gray-600" @@ "bg-gray-400" :> "bg-gray-500"
    @@ "bg-gray-500" :> "bg-gray-400" @@ "bg-gray-600" :> "bg-gray-300"
    @@ "bg-gray-700" :> "bg-gray-200" @@ "bg-gray-800" :> "bg-gray-100"
    @@ "bg-gray-900" :> "bg-white" @@ "bg-slate-50" :> "bg-slate-800"
    @@ "bg-slate-100" :> "bg-slate-800" @@ "bg-slate-200" :> "bg-slate-700"
    @@ "bg-slate-300" :> "bg-slate-600" @@ "bg-slate-800" :> "bg-slate-200"
    @@ "bg-slate-900" :> "bg-slate-100" @@ "bg-zinc-50" :> "bg-zinc-800"
    @@ "bg-zinc-100" :> "bg-zinc-800" @@ "bg-zinc-200" :> "bg-zinc-700"
    @@ "bg-zinc-800" :> "bg-zinc-200" @@ "bg-zinc-900" :> "bg-zinc-100"
    @@ "bg-neutral-50" :> "bg-neutral-800" @@ "bg-neutral-100" :> "bg-neutral-800"
    @@ "bg-neutral-200" :> "bg-neutral-700" @@ "bg-neutral-800" :> "bg-neutral-200"
    @@ "bg-neutral-900" :> "bg-neutral-100"

textMappings ==
    "text-black" :> "text-white" @@ "text-white" :> "text-black"
    @@ "text-gray-900" :> "text-gray-100" @@ "text-gray-800" :> "text-gray-200"
    @@ "text-gray-700" :> "text-gray-300" @@ "text-gray-600" :> "text-gray-400"
    @@ "text-gray-500" :> "text-gray-400" @@ "text-gray-400" :> "text-gray-500"
    @@ "text-gray-300" :> "text-gray-600" @@ "text-gray-200" :> "text-gray-700"
    @@ "text-gray-100" :> "text-gray-800" @@ "text-slate-900" :> "text-slate-100"
    @@ "text-slate-800" :> "text-slate-200" @@ "text-slate-700" :> "text-slate-300"
    @@ "text-slate-600" :> "text-slate-400" @@ "text-slate-500" :> "text-slate-400"
    @@ "text-slate-400" :> "text-slate-500" @@ "text-slate-300" :> "text-slate-600"
    @@ "text-slate-200" :> "text-slate-700" @@ "text-slate-100" :> "text-slate-800"
    @@ "text-zinc-900" :> "text-zinc-100" @@ "text-zinc-800" :> "text-zinc-200"
    @@ "text-zinc-700" :> "text-zinc-300" @@ "text-zinc-600" :> "text-zinc-400"
    @@ "text-zinc-500" :> "text-zinc-400" @@ "text-zinc-400" :> "text-zinc-500"
    @@ "text-zinc-300" :> "text-zinc-600" @@ "text-zinc-200" :> "text-zinc-700"
    @@ "text-zinc-100" :> "text-zinc-800" @@ "text-neutral-900" :> "text-neutral-100"
    @@ "text-neutral-800" :> "text-neutral-200" @@ "text-neutral-700" :> "text-neutral-300"
    @@ "text-neutral-600" :> "text-neutral-400" @@ "text-neutral-500" :> "text-neutral-400"
    @@ "text-neutral-400" :> "text-neutral-500" @@ "text-neutral-300" :> "text-neutral-600"
    @@ "text-neutral-200" :> "text-neutral-700" @@ "text-neutral-100" :> "text-neutral-800"

borderMappings ==
    "border-gray-200" :> "border-gray-700" @@ "border-gray-300" :> "border-gray-600"
    @@ "border-gray-400" :> "border-gray-500" @@ "border-gray-500" :> "border-gray-400"
    @@ "border-gray-600" :> "border-gray-300" @@ "border-gray-700" :> "border-gray-200"
    @@ "border-slate-200" :> "border-slate-700" @@ "border-slate-300" :> "border-slate-600"
    @@ "border-slate-400" :> "border-slate-500" @@ "border-slate-500" :> "border-slate-400"
    @@ "border-slate-600" :> "border-slate-300" @@ "border-slate-700" :> "border-slate-200"
    @@ "border-zinc-200" :> "border-zinc-700" @@ "border-zinc-300" :> "border-zinc-600"
    @@ "border-zinc-700" :> "border-zinc-200" @@ "border-neutral-200" :> "border-neutral-700"
    @@ "border-neutral-300" :> "border-neutral-600" @@ "border-neutral-700" :> "border-neutral-200"

ringMappings ==
    "ring-gray-500" :> "ring-gray-400" @@ "ring-blue-500" :> "ring-blue-400"
    @@ "ring-indigo-500" :> "ring-indigo-400" @@ "ring-purple-500" :> "ring-purple-400"
    @@ "ring-pink-500" :> "ring-pink-400" @@ "ring-red-500" :> "ring-red-400"
    @@ "ring-orange-500" :> "ring-orange-400" @@ "ring-amber-500" :> "ring-amber-400"
    @@ "ring-yellow-500" :> "ring-yellow-400" @@ "ring-lime-500" :> "ring-lime-400"
    @@ "ring-green-500" :> "ring-green-400" @@ "ring-emerald-500" :> "ring-emerald-400"
    @@ "ring-teal-500" :> "ring-teal-400" @@ "ring-cyan-500" :> "ring-cyan-400"
    @@ "ring-sky-500" :> "ring-sky-400"

divideMappings ==
    "divide-gray-200" :> "divide-gray-700" @@ "divide-gray-300" :> "divide-gray-600"
    @@ "divide-slate-200" :> "divide-slate-700" @@ "divide-slate-300" :> "divide-slate-600"
    @@ "divide-zinc-200" :> "divide-zinc-700" @@ "divide-neutral-200" :> "divide-neutral-700"

placeholderMappings ==
    "placeholder-gray-400" :> "placeholder-gray-500" @@ "placeholder-gray-500" :> "placeholder-gray-400"
    @@ "placeholder-slate-400" :> "placeholder-slate-500" @@ "placeholder-zinc-400" :> "placeholder-zinc-500"
    @@ "placeholder-neutral-400" :> "placeholder-neutral-500"
colorMappings ==
    backgroundMappings @@ textMappings @@ borderMappings
    @@ ringMappings @@ divideMappings @@ placeholderMappings

\* the value colorMappings[k] as a class string
genericEntry(k) == <<Cls(k), Dark(colorMappings[k])>>

\* the own key a token is looked up under, "" when the token carries a variant
keyOf(tok) == IF Len(tok) = 1 THEN tok[1] ELSE ""

\* colorMappings[cls] is defined
isMapped(tok) == keyOf(tok) \in DOMAIN colorMappings

-----------------------------------------------------------------------------
(* themes/presets: the dark palettes of the two versions of BRAND_PRESETS  *)

legacyPresets ==
    [vercel |-> [background |-> "#000000", foreground |-> "#ffffff", primary |-> "#ffffff",
                 secondary |-> "#888888", accent |-> "#0070f3", muted |-> "#111111",
                 border |-> "#333333"],
     supabase |-> [background |-> "#0f172a", foreground |-> "#f8fafc", primary |-> "#10b981",
                   secondary |-> "#94a3b8", accent |-> "#3b82f6", muted |-> "#1e293b",
                   border |-> "#334155"],
     linear |-> [background |-> "#09090b", foreground |-> "#fafafa", primary |-> "#a78bfa",
                 secondary |-> "#a1a1aa", accent |-> "#8b5cf6", muted |-> "#1c1c1f",
                 border |-> "#27272a"],
     openai |-> [background |-> "#1a202c", foreground |-> "#f7fafc", primary |-> "#10a37f",
                 secondary |-> "#a0aec0", accent |-> "#3182ce", muted |-> "#2d3748",
                 border |-> "#4a5568"],
     custom |-> [background |-> "#111827", foreground |-> "#f9fafb", primary |-> "#60a5fa",
                 secondary |-> "#9ca3af", accent |-> "#a78bfa", muted |-> "#1f2937",
                 border |-> "#374151"]]

professionalPresets ==
    [v0 |-> [background |-> "#0a0a0a", foreground |-> "#fafafa", primary |-> "#ffffff",
             secondary |-> "#a3a3a3", accent |-> "#0084ff", muted |-> "#1a1a1a",
             border |-> "#2a2a2a"],
     supabase |-> [background |-> "#0a0a0a", foreground |-> "#f8fafc", primary |-> "#10b981",
                   secondary |-> "#9ca3af", accent |-> "#3b82f6", muted |-> "#1a1a1a",
                   border |-> "#374151"],
     linear |-> [background |-> "#09090b", foreground |-> "#fafafa", primary |-> "#a78bfa",
                 secondary |-> "#a1a1aa", accent |-> "#8b5cf6", muted |-> "#1c1c1f",
                 border |-> "#27272a"],
     openai |-> [background |-> "#0a0a0a", foreground |-> "#f9fafb", primary |-> "#14b8a6",
                 secondary |-> "#9ca3af", accent |-> "#3b82f6", muted |-> "#1a1a1a",
                 border |-> "#374151"],
     custom |-> [background |-> "#111827", foreground |-> "#f9fafb", primary |-> "#60a5fa",
                 secondary |-> "#9ca3af", accent |-> "#a78bfa", muted |-> "#1f2937",
                 border |-> "#374151"]]

Catalogs == {"legacy", "professional"}

BRAND_PRESETS == IF catalog = "legacy" THEN legacyPresets ELSE professionalPresets

\* getThemePreset(id) is defined
hasThemePreset(id) == id \in DOMAIN BRAND_PRESETS

getThemePreset(id) == BRAND_PRESETS[id]

-----------------------------------------------------------------------------
(* core/colors.ts: theme-specific mapping *)

\* colorMap of hexToTailwindClass; the catalog's hex values are lower case
colorMap ==
    "#000000" :> "black" @@ "#ffffff" :> "white" @@ "#0a0a0a" :> "black"
    @@ "#fafafa" :> "gray-50" @@ "#1a1a1a" :> "gray-800" @@ "#2a2a2a" :> "gray-700"
    @@ "#525252" :> "gray-500" @@ "#a3a3a3" :> "gray-400" @@ "#e5e5e5" :> "gray-300"
    @@ "#0070f3" :> "blue-500" @@ "#0084ff" :> "blue-400"
    @@ "#059669" :> "green-600" @@ "#10b981" :> "green-500"
    @@ "#8b5cf6" :> "purple-500" @@ "#a78bfa" :> "purple-400"
    @@ "#0d9488" :> "teal-600" @@ "#14b8a6" :> "teal-500"

\* returns '' when the colour is not in colorMap
hexToTailwindClass(hex, prefix) ==
    IF hex \in DOMAIN colorMap THEN prefix \o "-" \o colorMap[hex] ELSE ""

\* themeColorMappings: for each gated class the palette slot, the prefix and
\* the default its dark half is computed from
themeColorMappings ==
    "bg-white" :> [slot |-> "background", prefix |-> "bg", default |-> "bg-gray-900"]
    @@ "bg-gray-50" :> [slot |-> "muted", prefix |-> "bg", default |-> "bg-gray-800"]
    @@ "bg-gray-100" :> [slot |-> "muted", prefix |-> "bg", default |-> "bg-gray-800"]
    @@ "bg-gray-900" :> [slot |-> "background", prefix |-> "bg", default |-> "bg-white"]
    @@ "text-black" :> [slot |-> "foreground", prefix |-> "text", default |-> "text-white"]
    @@ "text-white" :> [slot |-> "background", prefix |-> "text", default |-> "text-black"]
    @@ "text-gray-900" :> [slot |-> "foreground", prefix |-> "text", default |-> "text-gray-100"]
    @@ "text-gray-600" :> [slot |-> "secondary", prefix |-> "text", default |-> "text-gray-400"]
    @@ "border-gray-200" :> [slot |-> "border", prefix |-> "border", default |-> "border-gray-700"]
    @@ "border-gray-300" :> [slot |-> "border", prefix |-> "border", default |-> "border-gray-600"]

\* mapping.dark of a gated class under a preset's dark palette
mappingDark(k, theme) ==
    LET m == themeColorMappings[k]
        c == hexToTailwindClass(theme[m.slot], m.prefix)
    IN  IF c # "" THEN c ELSE m.default

\* colors.ts:237-260
vercelSwitch ==
    "bg-white" :> <<Cls("bg-white"), Dark("bg-black")>>
    @@ "bg-gray-50" :> <<Cls("bg-gray-50"), Dark("bg-gray-900")>>
    @@ "bg-gray-100" :> <<Cls("bg-gray-100"), Dark("bg-gray-900")>>
    @@ "bg-gray-900" :> <<Cls("bg-gray-900"), Dark("bg-white")>>
    @@ "text-black" :> <<Cls("text-black"), Dark("text-white")>>
    @@ "text-white" :> <<Cls("text-white"), Dark("text-black")>>
    @@ "text-gray-900" :> <<Cls("text-gray-900"), Dark("text-gray-100")>>
    @@ "text-gray-600" :> <<Cls("text-gray-600"), Dark("text-gray-300")>>
    @@ "border-gray-200" :> <<Cls("border-gray-200"), Dark("border-gray-800")>>
    @@ "border-gray-300" :> <<Cls("border-gray-300"), Dark("border-gray-700")>>

\* colors.ts:262-281
v0Switch ==
    "bg-white" :> <<Cls("bg-white"), Dark("bg-[oklch(0.145"), Cls("0"), Cls("0)]")>>
    @@ "bg-gray-50" :> <<Cls("bg-gray-50"), Dark("bg-[oklch(0.182"), Cls("0"), Cls("0)]")>>
    @@ "bg-gray-100" :> <<Cls("bg-gray-100"), Dark("bg-[oklch(0.182"), Cls("0"), Cls("0)]")>>
    @@ "bg-gray-900" :> <<Cls("bg-gray-900"), Dark("bg-[oklch(0.946"), Cls("0"), Cls("0)]")>>
    @@ "text-gray-900" :> <<Cls("text-gray-900"), Dark("text-[oklch(0.946"), Cls("0"), Cls("0)]")>>
    @@ "text-gray-700" :> <<Cls("text-gray-700"), Dark("text-[oklch(0.706"), Cls("0"), Cls("0)]")>>
    @@ "text-gray-600" :> <<Cls("text-gray-600"), Dark("text-[oklch(0.39"), Cls("0"), Cls("0)]")>>
    @@ "border-gray-200" :> <<Cls("border-gray-200"), Dark("border-[oklch(0.239"), Cls("0"), Cls("0)]")>>

\* colors.ts:283-303
linearSwitch ==
    "bg-white" :> <<Cls("bg-white"), Dark("bg-[lch(12.236"), Cls("2.213"), Cls("272.695)]")>>
    @@ "bg-gray-50" :> <<Cls("bg-gray-50"), Dark("bg-[lch(17.236"), Cls("4.213"), Cls("272.695)]")>>
    @@ "bg-gray-100" :> <<Cls("bg-gray-100"), Dark("bg-[lch(18.236"), Cls("2.213"), Cls("272.695)]")>>
    @@ "bg-gray-200" :> <<Cls("bg-gray-200"), Dark("bg-[lch(20.636"), Cls("4.613"), Cls("272.695)]")>>
    @@ "text-gray-900" :> <<Cls("text-gray-900"), Dark("text-[lch(91.024"), Cls("1.106"), Cls("272.695)]")>>
    @@ "text-gray-700" :> <<Cls("text-gray-700"), Dark("text-[lch(64.894"), Cls("2.106"), Cls("272.695)]")>>
    @@ "text-gray-600" :> <<Cls("text-gray-600"), Dark("text-[lch(64.094"), Cls("1.106"), Cls("272.695)]")>>
    @@ "border-gray-200" :> <<Cls("border-gray-200"), Dark("border-[lch(22.236"), Cls("2.613"), Cls("272.695)]")>>

\* colors.ts:305-327
supabaseSwitch ==
    "bg-white" :> <<Cls("bg-white"), Dark("bg-[#171717]")>>
    @@ "bg-gray-50" :> <<Cls("bg-gray-50"), Dark("bg-[#1F1F1F]")>>
    @@ "bg-gray-100" :> <<Cls("bg-gray-100"), Dark("bg-[#212121]")>>
    @@ "bg-gray-900" :> <<Cls("bg-gray-900"), Dark("bg-[#FAFAFA]")>>
    @@ "text-gray-900" :> <<Cls("text-gray-900"), Dark("text-[#FAFAFA]")>>
    @@ "text-gray-700" :> <<Cls("text-gray-700"), Dark("text-[#B4B4B4]")>>
    @@ "text-gray-600" :> <<Cls("text-gray-600"), Dark("text-[#898989]")>>
    @@ "border-gray-200" :> <<Cls("border-gray-200"), Dark("border-[#313131]")>>
    @@ "border-gray-300" :> <<Cls("border-gray-300"), Dark("border-[#454545]")>>

\* colors.ts:329-351
openaiSwitch ==
    "bg-white" :> <<Cls("bg-white"), Dark("bg-[#0D0D0D]")>>
    @@ "bg-gray-50" :> <<Cls("bg-gray-50"), Dark("bg-[#171717]")>>
    @@ "bg-gray-100" :> <<Cls("bg-gray-100"), Dark("bg-[#212121]")>>
    @@ "bg-gray-900" :> <<Cls("bg-gray-900"), Dark("bg-[#F3F3F3]")>>
    @@ "text-gray-900" :> <<Cls("text-gray-900"), Dark("text-[#F3F3F3]")>>
    @@ "text-gray-700" :> <<Cls("text-gray-700"), Dark("text-[#AFAFAF]")>>
    @@ "text-gray-600" :> <<Cls("text-gray-600"), Dark("text-[#424242]")>>
    @@ "border-gray-200" :> <<Cls("border-gray-200"), Dark("border-[#303030]")>>
    @@ "border-gray-300" :> <<Cls("border-gray-300"), Dark("border-[#424242]")>>
themeSwitch ==
    [vercel |-> vercelSwitch, v0 |-> v0Switch, linear |-> linearSwitch,
     supabase |-> supabaseSwitch, openai |-> openaiSwitch]

\* string | null, null being the empty class string (both are falsy)
getThemeSpecificMapping(className, themeId) ==
    LET k == keyOf(className) IN
    IF ~hasThemePreset(themeId) THEN <<>>
    ELSE IF k \notin DOMAIN themeColorMappings THEN <<>>
    ELSE IF themeId \in DOMAIN themeSwitch /\ k \in DOMAIN themeSwitch[themeId]
         THEN themeSwitch[themeId][k]
    ELSE <<Cls(k), Dark(mappingDark(k, getThemePreset(themeId)))>>

\* a variant that returns only the dark half of a generic entry
transformTailwindClass_DarkOnly(className, themeId) ==
    IF keyOf(className) \in DOMAIN colorMappings
    THEN <<Dark(colorMappings[keyOf(className)])>>
    ELSE <<className>>

transformTailwindClass(className, themeId) ==
    LET themeMapping == IF themeId # NoTheme
                        THEN getThemeSpecificMapping(className, themeId)
                        ELSE <<>>
    IN  IF themeMapping # <<>> THEN themeMapping
        ELSE IF keyOf(className) \in DOMAIN colorMappings
             THEN genericEntry(keyOf(className))
        ELSE <<className>>

\* the while loop of transformExistingClasses from index i on
RECURSIVE existingWalk(_, _, _)
existingWalk(classes, i, themeId) ==
    IF i > Len(classes) THEN <<>>
    ELSE LET cls == classes[i]
             themeMapping == IF startsWithDark(cls) THEN <<>>
                             ELSE getThemeSpecificMapping(cls, themeId)
         IN  IF themeMapping # <<>>
             THEN IF i + 1 <= Len(classes) /\ startsWithDark(classes[i + 1])
                  THEN <<themeMapping>> \o existingWalk(classes, i + 2, themeId)
                  ELSE <<themeMapping>> \o existingWalk(classes, i + 1, themeId)
             ELSE << <<cls>> >> \o existingWalk(classes, i + 1, themeId)

transformExistingClasses(classString, themeId) ==
    IF themeId = NoTheme THEN classString
    ELSE join(existingWalk(split(classString), 1, themeId))

\* a check that finds no dark variant anywhere
hasExistingDarkVariant_Never(classString) == FALSE

hasExistingDarkVariant(classString) ==
    \E i \in 1..Len(classString) : includesDark(classString[i])

transformTailwindClasses(classString, themeId) ==
    IF themeId # NoTheme /\ hasExistingDarkVariant(classString)
    THEN transformExistingClasses(classString, themeId)
    ELSE LET classes == split(classString)
         IN  join([i \in 1..Len(classes) |-> transformTailwindClass(classes[i], themeId)])

-----------------------------------------------------------------------------
(* Calls of transformTailwindClasses: a first call on an input string, a   *)
(* second call on its result, and a third call with the second's themeId.  *)

Tokens ==
    {Cls("bg-white"), Cls("text-gray-900"), Cls("text-gray-700"), Cls("text-black"),
     Cls("p-4"), Dark("bg-gray-900")}

Fields == Tokens \cup {Empty}

ClassStrings == UNION {[1..n -> Fields] : n \in 0..MaxFields} \ {<<Empty>>}

\* themeId arguments: none, presets of either catalog, and an unknown id
ThemeArgs == {NoTheme, "vercel", "v0", "linear", "custom", "acme"}

ClsInit ==
    /\ catalog \in Catalogs
    /\ input \in ClassStrings
    /\ themeA = NoTheme
    /\ themeB = NoTheme
    /\ out1 = <<>>
    /\ out2 = <<>>
    /\ out3 = <<>>
    /\ cpc = "start"

TransformOnce ==
    /\ cpc = "start"
    /\ \E t \in ThemeArgs :
          /\ themeA' = t
          /\ out1' = transformTailwindClasses(input, t)
    /\ cpc' = "once"
    /\ UNCHANGED <<catalog, input, themeB, out2, out3, batchVars, cfgVars, cmdVars, libVars>>

TransformTwice ==
    /\ cpc = "once"
    /\ \E t \in ThemeArgs :
          /\ themeB' = t
          /\ out2' = transformTailwindClasses(out1, t)
    /\ cpc' = "twice"
    /\ UNCHANGED <<catalog, input, themeA, out1, out3, batchVars, cfgVars, cmdVars, libVars>>

TransformThrice ==
    /\ cpc = "twice"
    /\ out3' = transformTailwindClasses(out2, themeB)
    /\ cpc' = "thrice"
    /\ UNCHANGED <<catalog, input, themeA, themeB, out1, out2, batchVars, cfgVars, cmdVars, libVars>>

-----------------------------------------------------------------------------
(* core/transformer.ts: file contents.  The dialect parsers are external   *)
(* collaborators; a file content is the sequence of its segments, each     *)
(* either plain text or a class attribute with its class string.  The      *)
(* empty content <<>> is the empty string (falsy, like an absent content). *)

Text == [attr |-> FALSE, value |-> <<>>]
Attr(classString) == [attr |-> TRUE, value |-> classString]

Paths == {"a.tsx", "b.vue"}

Contents ==
    {<<>>,
     <<Text>>,
     <<Text, Attr(<<Cls("bg-white"), Cls("p-4")>>)>>,
     <<Attr(<<Cls("bg-white"), Dark("bg-gray-900")>>), Attr(<<Cls("text-gray-900")>>)>>}

Missing == [exists |-> FALSE, content |-> <<>>]
DiskEntries == {Missing} \cup {[exists |-> TRUE, content |-> c] : c \in Contents}

ComponentFiles == [path : Paths, content : Contents]

\* the replace callback of transformHtmlContent / transformGeneric and the
\* JSXAttribute visitor: what becomes of one segment, given the transformed
\* class string
replaceCallback(seg, shouldTransform, transformed) ==
    IF seg.attr /\ shouldTransform /\ transformed # seg.value
    THEN [seg |-> Attr(transformed), changed |-> TRUE]
    ELSE [seg |-> seg, changed |-> FALSE]

transformSegment(seg, themeId) ==
    replaceCallback(seg,
                    themeId # NoTheme \/ ~hasExistingDarkVariant(seg.value),
                    transformTailwindClasses(seg.value, themeId))

\* transformedClasses.push(originalClasses) of the changed segments from index i on
RECURSIVE transformedClassesOf(_, _, _)
transformedClassesOf(content, r, i) ==
    IF i > Len(content) THEN <<>>
    ELSE (IF r[i].changed THEN <<content[i].value>> ELSE <<>>)
         \o transformedClassesOf(content, r, i + 1)

\* { content, transformedClasses } given the outcome r of every segment
contentResult(content, r) ==
    [content |-> [i \in 1..Len(content) |-> r[i].seg],
     transformedClasses |-> transformedClassesOf(content, r, 1)]

transformContent(content, themeId) ==
    contentResult(content,
                  [i \in 1..Len(content) |-> transformSegment(content[i], themeId)])

\* fs.readFile(file.path) rejects: the content is absent and the file is not on disk
transformFileThrows(file, d) == file.content = <<>> /\ ~d[file.path].exists

\* the TransformationResult of transformFile, given the transformed content t
fileResult(file, originalContent, t) ==
    [filePath |-> file.path,
     success |-> TRUE,
     error |-> "",
     originalContent |-> originalContent,
     transformedContent |-> t.content,
     changesCount |-> Len(t.transformedClasses),
     transformedClasses |-> t.transformedClasses]

\* file.content || await fs.readFile(file.path, 'utf-8')
contentOf(file, d) ==
    IF file.content # <<>> THEN file.content ELSE d[file.path].content

transformFile(file, themeId, d) ==
    fileResult(file, contentOf(file, d), transformContent(contentOf(file, d), themeId))

\* a catch block that reports the file as transformed
failureResult_Success(file) ==
    [filePath |-> file.path,
     success |-> TRUE,
     error |-> "ENOENT",
     originalContent |-> file.content,
     transformedContent |-> file.content,
     changesCount |-> 0,
     transformedClasses |-> <<>>]

\* the result pushed by the catch block of transformFiles
failureResult(file) ==
    [filePath |-> file.path,
     success |-> FALSE,
     error |-> "ENOENT",
     originalContent |-> file.content,
     transformedContent |-> file.content,
     changesCount |-> 0,
     transformedClasses |-> <<>>]

\* the for loop of transformFiles from index i on
RECURSIVE transformFilesLoop(_, _, _, _)
transformFilesLoop(fs, i, themeId, d) ==
    IF i > Len(fs) THEN <<>>
    ELSE (IF transformFileThrows(fs[i], d)
          THEN <<failureResult(fs[i])>>
          ELSE <<transformFile(fs[i], themeId, d)>>)
         \o transformFilesLoop(fs, i + 1, themeId, d)

\* results.reduce((sum, r) => sum + r.changesCount, 0)
RECURSIVE sumChanges(_)
sumChanges(results) ==
    IF results = <<>> THEN 0
    ELSE Head(results).changesCount + sumChanges(Tail(results))

\* the TransformationSummary returned by transformFiles
summaryOf(fs, results) ==
    [totalFiles |-> Len(fs),
     successfulTransformations |-> Len(SelectSeq(results, LAMBDA r : r.success)),
     failedTransformations |-> Len(SelectSeq(results, LAMBDA r : ~r.success)),
     totalChanges |-> sumChanges(results),
     results |-> results]

transformFiles(fs, themeId, d) ==
    summaryOf(fs, transformFilesLoop(fs, 1, themeId, d))

\* a writer that rewrites every file it is given
shouldWrite_Always(result) == TRUE

\* the condition of applyTransformations
shouldWrite(result) == result.success /\ result.changesCount > 0

\* the for loop of applyTransformations from index i on
RECURSIVE applyTransformations(_, _, _)
applyTransformations(results, i, d) ==
    IF i > Len(results) THEN d
    ELSE LET r == results[i]
             d2 == IF shouldWrite(r)
                   THEN [d EXCEPT ![r.filePath] = [exists |-> TRUE, content |-> r.transformedContent]]
                   ELSE d
         IN  applyTransformations(results, i + 1, d2)

NoSummary ==
    [totalFiles |-> 0, successfulTransformations |-> 0, failedTransformations |-> 0,
     totalChanges |-> 0, results |-> <<>>]

BatchThemes == {NoTheme, "linear"}

BatchInit ==
    /\ catalog \in Catalogs
    /\ files \in UNION {[1..n -> ComponentFiles] : n \in 0..MaxFiles}
    /\ batchTheme \in BatchThemes
    /\ disk \in [Paths -> DiskEntries]
    /\ summary = NoSummary
    /\ bpc = "start"

TransformFiles ==
    /\ bpc = "start"
    /\ summary' = transformFiles(files, batchTheme, disk)
    /\ bpc' = "transformed"
    /\ UNCHANGED <<clsVars, files, batchTheme, disk, cfgVars, cmdVars, libVars>>

ApplyTransformations ==
    /\ bpc = "transformed"
    /\ disk' = applyTransformations(summary.results, 1, disk)
    /\ bpc' = "applied"
    /\ UNCHANGED <<clsVars, files, batchTheme, summary, cfgVars, cmdVars, libVars>>

-----------------------------------------------------------------------------
(* core/transformer.ts: the Tailwind configuration patcher.  A             *)
(* configuration file is the sequence of its chunks of text; the chunks    *)
(* below are the ones the patcher's tests and replacements tell apart.     *)

ExportsHead == "module.exports = {"
ExportDefaultHead == "export default {"
DarkModeClass == "darkMode: 'class',"
DarkModeComment == "// darkMode off"
ContentKey == "content: [],"

ImportDQ == "@import \"tailwindcss\";"
ImportSQ == "@import 'tailwindcss';"
ImportDQSource == "@import \"tailwindcss\" source(none);"
darkVariant == "@custom-variant dark (&:where(.dark, .dark *));"
BodyRule == "body {}"
BlankLine == ""

V3Chunks == {ExportsHead, ExportDefaultHead, DarkModeClass, DarkModeComment, ContentKey}
V4Chunks == {ImportDQ, ImportSQ, ImportDQSource, darkVariant, BodyRule}

\* content.includes(needle), chunk by chunk
includesAny(content, chunks) == \E i \in 1..Len(content) : content[i] \in chunks

\* String.prototype.replace: the first chunk among heads gets `after` appended
RECURSIVE replaceFirst(_, _, _)
replaceFirst(content, heads, after) ==
    IF content = <<>> THEN <<>>
    ELSE IF Head(content) \in heads THEN <<Head(content)>> \o after \o Tail(content)
    ELSE <<Head(content)>> \o replaceFirst(Tail(content), heads, after)

\* a patcher that never finds dark mode configured
alreadyConfiguredV3_Never(configContent) == FALSE

\* configContent.includes('darkMode')
alreadyConfiguredV3(configContent) ==
    includesAny(configContent, {DarkModeClass, DarkModeComment})

\* outcome and file after updateTailwindV3Config on file f
updateTailwindV3Config(f) ==
    IF ~f.exists THEN [ret |-> "throws", file |-> f]
    ELSE IF alreadyConfiguredV3(f.content) THEN [ret |-> "false", file |-> f]
    ELSE LET updatedContent ==
                 replaceFirst(f.content, {ExportsHead, ExportDefaultHead}, <<DarkModeClass>>)
         IN  IF updatedContent # f.content
             THEN [ret |-> "true", file |-> [exists |-> TRUE, content |-> updatedContent]]
             ELSE [ret |-> "false", file |-> f]

\* cssContent.includes('@custom-variant dark')
alreadyConfiguredV4(cssContent) == includesAny(cssContent, {darkVariant})

\* outcome and file after updateTailwindV4Config on file f
updateTailwindV4Config(f) ==
    IF ~f.exists THEN [ret |-> "throws", file |-> f]
    ELSE IF alreadyConfiguredV4(f.content) THEN [ret |-> "false", file |-> f]
    ELSE LET updatedContent ==
                 IF includesAny(f.content, {ImportDQ, ImportDQSource})
                 THEN replaceFirst(f.content, {ImportDQ}, <<BlankLine, darkVariant>>)
                 ELSE IF includesAny(f.content, {ImportSQ})
                 THEN replaceFirst(f.content, {ImportSQ}, <<BlankLine, darkVariant>>)
                 ELSE <<darkVariant, BlankLine>> \o f.content
         IN  IF updatedContent # f.content
             THEN [ret |-> "true", file |-> [exists |-> TRUE, content |-> updatedContent]]
             ELSE [ret |-> "false", file |-> f]

\* outcome and the two files after updateTailwindConfig(configPath, cssFile, version)
updateTailwindConfig(args, cfgF, cssF) ==
    IF args.version = "v4" /\ args.cssFile
    THEN LET r == updateTailwindV4Config(cssF)
         IN  [ret |-> r.ret, configFile |-> cfgF, cssFile |-> r.file]
    ELSE IF args.version = "v3" /\ args.configPath
    THEN LET r == updateTailwindV3Config(cfgF)
         IN  [ret |-> r.ret, configFile |-> r.file, cssFile |-> cssF]
    ELSE [ret |-> "throws", configFile |-> cfgF, cssFile |-> cssF]

ConfigContents(chunks) == UNION {[1..n -> chunks] : n \in 0..MaxChunks}

ConfigFilesOf(chunks) ==
    {Missing} \cup {[exists |-> TRUE, content |-> c] : c \in ConfigContents(chunks)}

DefaultConfig == [exists |-> TRUE, content |-> <<ExportsHead, ContentKey>>]
DefaultCss == [exists |-> TRUE, content |-> <<ImportDQ, BodyRule>>]

UpdateArgs == [configPath : BOOLEAN, cssFile : BOOLEAN, version : {"v3", "v4", "unknown"}]

CfgInit ==
    /\ cfgArgs \in UpdateArgs
    /\ \/ configFile \in ConfigFilesOf(V3Chunks) /\ cssFile \in {Missing, DefaultCss}
       \/ configFile \in {Missing, DefaultConfig} /\ cssFile \in ConfigFilesOf(V4Chunks)
    /\ ret1 = "none"
    /\ ret2 = "none"
    /\ cfgpc = "start"

UpdateConfigFirst ==
    /\ cfgpc = "start"
    /\ LET r == updateTailwindConfig(cfgArgs, configFile, cssFile)
       IN  /\ ret1' = r.ret
           /\ configFile' = r.configFile
           /\ cssFile' = r.cssFile
    /\ cfgpc' = "once"
    /\ UNCHANGED <<cfgArgs, ret2, clsVars, batchVars, cmdVars, libVars>>

UpdateConfigSecond ==
    /\ cfgpc = "once"
    /\ LET r == updateTailwindConfig(cfgArgs, configFile, cssFile)
       IN  /\ ret2' = r.ret
           /\ configFile' = r.configFile
           /\ cssFile' = r.cssFile
    /\ cfgpc' = "twice"
    /\ UNCHANGED <<cfgArgs, ret1, clsVars, batchVars, cmdVars, libVars>>

-----------------------------------------------------------------------------
(* core/scanner.ts: the project analysis the command works from *)

\* glob order of the component files
PathSeq == <<"a.tsx", "b.vue">>

\* allClasses: the class strings of every class attribute, split into classes
RECURSIVE allClasses(_, _)
allClasses(content, i) ==
    IF i > Len(content) THEN <<>>
    ELSE (IF content[i].attr THEN split(content[i].value) ELSE <<>>)
         \o allClasses(content, i + 1)

analyzeClassTransformability(classes) ==
    [total |-> Len(classes),
     transformable |->
         Cardinality({i \in 1..Len(classes) :
                         ~includesDark(classes[i]) /\ isMapped(classes[i])})]

analyzeFileForTailwindClasses(content) ==
    analyzeClassTransformability(allClasses(content, 1))

\* the ComponentFile pushed for path p
componentFile(p, content, fileAnalysis) ==
    [path |-> p, content |-> content,
     transformableClasses |-> fileAnalysis.transformable]

\* findComponentFiles: the readable files with at least one class, from index i on
RECURSIVE findComponentFiles(_, _)
findComponentFiles(d, i) ==
    IF i > Len(PathSeq) THEN <<>>
    ELSE (IF /\ d[PathSeq[i]].exists
             /\ analyzeFileForTailwindClasses(d[PathSeq[i]].content).total > 0
          THEN <<componentFile(PathSeq[i], d[PathSeq[i]].content,
                               analyzeFileForTailwindClasses(d[PathSeq[i]].content))>>
          ELSE <<>>)
         \o findComponentFiles(d, i + 1)

\* detectTailwindVersion: v4 when a stylesheet imports tailwindcss
detectTailwindVersion(cfgF, cssF) ==
    IF cssF.exists /\ includesAny(cssF.content, {ImportDQ, ImportSQ, ImportDQSource})
    THEN "v4"
    ELSE IF cfgF.exists THEN "v3"
    ELSE "unknown"

checkDarkModeEnabled(cfgF, cssF, version) ==
    IF version = "v4"
    THEN includesAny(cssF.content, {darkVariant})
    ELSE cfgF.exists /\ includesAny(cfgF.content, {DarkModeClass})

RECURSIVE estimatedChanges(_)
estimatedChanges(componentFiles) ==
    IF componentFiles = <<>> THEN 0
    ELSE Head(componentFiles).transformableClasses + estimatedChanges(Tail(componentFiles))

projectAnalysis(cfgF, version, componentFiles, darkModeEnabled) ==
    [hasTailwindConfig |-> cfgF.exists,
     tailwindConfigPath |-> cfgF.exists,
     tailwindVersion |-> version,
     tailwindCssFile |-> version = "v4",
     componentFiles |-> componentFiles,
     darkModeEnabled |-> darkModeEnabled,
     estimatedChanges |-> estimatedChanges(componentFiles)]

analyzeProject(d, cfgF, cssF) ==
    projectAnalysis(cfgF,
                    detectTailwindVersion(cfgF, cssF),
                    findComponentFiles(d, 1),
                    checkDarkModeEnabled(cfgF, cssF, detectTailwindVersion(cfgF, cssF)))

\* validation.valid
validateProject(d, cfgF, cssF) == analyzeProject(d, cfgF, cssF).hasTailwindConfig

-----------------------------------------------------------------------------
(* cli/commands/add-dark-mode: addDarkModeCommand, one action per step *)

NoAnalysis ==
    [hasTailwindConfig |-> FALSE, tailwindConfigPath |-> FALSE,
     tailwindVersion |-> "unknown", tailwindCssFile |-> FALSE,
     componentFiles |-> <<>>, darkModeEnabled |-> FALSE, estimatedChanges |-> 0]

NoBackup == [dir |-> FALSE, copies |-> {}]

Options ==
    [dryRun : BOOLEAN, force : BOOLEAN, backup : BOOLEAN, noCommit : BOOLEAN,
     theme : BatchThemes]

NoOptions ==
    [dryRun |-> FALSE, force |-> FALSE, backup |-> FALSE, noCommit |-> FALSE,
     theme |-> NoTheme]

ConfiguredConfig == [exists |-> TRUE, content |-> <<ExportsHead, DarkModeClass>>]
ConfiguredCss == [exists |-> TRUE, content |-> <<ImportDQ, darkVariant>>]
PlainCss == [exists |-> TRUE, content |-> <<BodyRule>>]

Frameworks == {"react", "unknown"}

\* the variables no step of the command assigns
cmdFrame ==
    <<catalog, input, themeA, themeB, out1, out2, out3, cpc, files, batchTheme, bpc,
      cfgArgs, ret1, ret2, cfgpc, opts, framework, libVars>>

CmdInit ==
    /\ catalog = "legacy"
    /\ opts \in Options
    /\ framework \in Frameworks
    /\ disk \in [Paths -> DiskEntries]
    /\ configFile \in {Missing, DefaultConfig, ConfiguredConfig}
    /\ cssFile \in {Missing, DefaultCss, ConfiguredCss, PlainCss}
    /\ toggleFile \in BOOLEAN
    /\ analysis = NoAnalysis
    /\ summary = NoSummary
    /\ backups = NoBackup
    /\ layoutPatched = FALSE
    /\ commits = 0
    /\ cmdpc = "start"

\* Step 1: validateProject; an invalid project exits with status 1
CmdValidate ==
    /\ cmdpc = "start"
    /\ cmdpc' = IF validateProject(disk, configFile, cssFile) THEN "validated" ELSE "exit1"
    /\ UNCHANGED <<cmdFrame, disk, configFile, cssFile, summary, analysis, backups,
                   toggleFile, layoutPatched, commits>>

\* Step 2: analyzeProject and the two early returns
CmdAnalyze ==
    /\ cmdpc = "validated"
    /\ analysis' = analyzeProject(disk, configFile, cssFile)
    /\ cmdpc' = IF analysis'.darkModeEnabled /\ ~opts.force THEN "returned"
                ELSE IF analysis'.estimatedChanges = 0 /\ ~opts.force THEN "returned"
                ELSE "analyzed"
    /\ UNCHANGED <<cmdFrame, disk, configFile, cssFile, summary, backups,
                   toggleFile, layoutPatched, commits>>

\* the backup directory after createBackup(files, backupDir)
createBackup(componentFiles) ==
    [dir |-> TRUE, copies |-> {componentFiles[i].path : i \in 1..Len(componentFiles)}]

\* Step 3: createBackup when options.backup
CmdBackup ==
    /\ cmdpc = "analyzed"
    /\ backups' = IF opts.backup THEN createBackup(analysis.componentFiles) ELSE backups
    /\ cmdpc' = "backedUp"
    /\ UNCHANGED <<cmdFrame, disk, configFile, cssFile, summary, analysis,
                   toggleFile, layoutPatched, commits>>

\* Step 4: the preview of options.dryRun, then return
CmdDryRun ==
    /\ cmdpc = "backedUp"
    /\ opts.dryRun
    /\ summary' = transformFiles(analysis.componentFiles, opts.theme, disk)
    /\ cmdpc' = "returned"
    /\ UNCHANGED <<cmdFrame, disk, configFile, cssFile, analysis, backups,
                   toggleFile, layoutPatched, commits>>

\* Step 5: transformFiles
CmdTransform ==
    /\ cmdpc = "backedUp"
    /\ ~opts.dryRun
    /\ summary' = transformFiles(analysis.componentFiles, opts.theme, disk)
    /\ cmdpc' = "transformed"
    /\ UNCHANGED <<cmdFrame, disk, configFile, cssFile, analysis, backups,
                   toggleFile, layoutPatched, commits>>

\* applyTransformations(transformResults.results)
CmdApply ==
    /\ cmdpc = "transformed"
    /\ disk' = applyTransformations(summary.results, 1, disk)
    /\ cmdpc' = "applied"
    /\ UNCHANGED <<cmdFrame, configFile, cssFile, summary, analysis, backups,
                   toggleFile, layoutPatched, commits>>

\* the files and the step after Step 6, given the outcome r of updateTailwindConfig
configStep(r) ==
    [configFile |-> r.configFile, cssFile |-> r.cssFile,
     pc |-> IF r.ret = "throws" THEN "exit1" ELSE "configured"]

\* Step 6: updateTailwindConfig when a config file or stylesheet was found
CmdUpdateConfig ==
    /\ cmdpc = "applied"
    /\ IF analysis.tailwindConfigPath \/ analysis.tailwindCssFile
       THEN \E st \in {configStep(updateTailwindConfig(
                           [configPath |-> analysis.tailwindConfigPath,
                            cssFile |-> analysis.tailwindCssFile,
                            version |-> analysis.tailwindVersion],
                           configFile, cssFile))} :
               /\ configFile' = st.configFile
               /\ cssFile' = st.cssFile
               /\ cmdpc' = st.pc
       ELSE /\ cmdpc' = "configured"
            /\ UNCHANGED <<configFile, cssFile>>
    /\ UNCHANGED <<cmdFrame, disk, summary, analysis, backups,
                   toggleFile, layoutPatched, commits>>

\* generateThemeToggleComponent throws: unsupported framework, or the component
\* exists and overwrite is off
generateThrows == framework = "unknown" \/ (toggleFile /\ ~opts.force)

\* Step 7: generateThemeToggleComponent; its error is caught and skips Step 7.5
CmdGenerate ==
    /\ cmdpc = "configured"
    /\ toggleFile' = (toggleFile \/ ~generateThrows)
    /\ cmdpc' = IF generateThrows THEN "placed" ELSE "generated"
    /\ UNCHANGED <<cmdFrame, disk, configFile, cssFile, summary, analysis, backups,
                   layoutPatched, commits>>

\* Step 7.5: autoPlaceThemeToggle, which edits a layout file when it succeeds
CmdAutoPlace ==
    /\ cmdpc = "generated"
    /\ \E success \in BOOLEAN : layoutPatched' = success
    /\ cmdpc' = "placed"
    /\ UNCHANGED <<cmdFrame, disk, configFile, cssFile, summary, analysis, backups,
                   toggleFile, commits>>

\* Step 8: commitChanges unless options.noCommit; a git error is caught
CmdCommit ==
    /\ cmdpc = "placed"
    /\ IF opts.noCommit THEN commits' = commits
       ELSE \E committed \in BOOLEAN : commits' = IF committed THEN commits + 1 ELSE commits
    /\ cmdpc' = "done"
    /\ UNCHANGED <<cmdFrame, disk, configFile, cssFile, summary, analysis, backups,
                   toggleFile, layoutPatched>>

-----------------------------------------------------------------------------
(* cli/parser.ts: the natural-language command parser.  A command string   *)
(* is the sequence of its words (the pieces between runs of whitespace).   *)
(* The regular expressions are unanchored, so each test below is a test    *)
(* on substrings of words; over the vocabulary it is given by the set of   *)
(* words that contain, start with or end with the text in question.        *)

Vocabulary ==
    {"add", "Add", "enable", "dark", "mode", "theme", "night", "light",
     "switching", "support", "scan", "project", "check", "status", "help",
     "--dry-run", "--component", "Toggle", "my-toggle"}

\* String.prototype.toLowerCase on one word
toLowerCase(w) ==
    IF w = "Add" THEN "add" ELSE IF w = "Toggle" THEN "toggle" ELSE w

\* input.toLowerCase().trim()
normalize(words) == [i \in 1..Len(words) |-> toLowerCase(words[i])]

\* words ending with add|enable|setup|create|implement
endsWithVerb == {"add", "enable"}

\* words ending with add|enable
endsWithAddEnable == {"add", "enable"}

\* words starting with mode, with theme, with mode|theme
startsWithMode == {"mode"}
startsWithThemeWord == {"theme"}

\* words ending with dark
endsWithDark == {"dark"}

\* words containing scan|analyze|check|detect, status|info, help|usage|?
containsScan == {"scan", "check"}
containsStatus == {"status"}
containsHelp == {"help"}

\* /(?:add|enable|setup|create|implement)\s+(?:dark\s*mode|dark\s*theme|night\s*mode)/
matchesAddDarkMode(w) ==
    \E i \in 1..(Len(w) - 2) :
        /\ w[i] \in endsWithVerb
        /\ \/ w[i + 1] = "dark" /\ w[i + 2] \in (startsWithMode \cup startsWithThemeWord)
           \/ w[i + 1] = "night" /\ w[i + 2] \in startsWithMode

\* /(?:add|enable)\s+(?:dark|night)\s+(?:mode|theme)/
matchesAddDarkWords(w) ==
    \E i \in 1..(Len(w) - 2) :
        /\ w[i] \in endsWithAddEnable
        /\ w[i + 1] \in {"dark", "night"}
        /\ w[i + 2] \in (startsWithMode \cup startsWithThemeWord)

\* /dark\s*mode/
matchesDarkMode(w) ==
    \E i \in 1..(Len(w) - 1) : w[i] \in endsWithDark /\ w[i + 1] \in startsWithMode

\* /(?:scan|analyze|check|detect)\s*(?:project)?/
matchesScan(w) == \E i \in 1..Len(w) : w[i] \in containsScan

\* /(?:status|info|information)/
matchesStatus(w) == \E i \in 1..Len(w) : w[i] \in containsStatus

\* /(?:help|usage|\?)/
matchesHelp(w) == \E i \in 1..Len(w) : w[i] \in containsHelp

\* the patterns of parseCommand, in order; confidence in tenths
patterns ==
    <<[id |-> "addDarkMode", action |-> "add-dark-mode", confidence |-> 9],
      [id |-> "addDarkWords", action |-> "add-dark-mode", confidence |-> 8],
      [id |-> "darkMode", action |-> "add-dark-mode", confidence |-> 7],
      [id |-> "scan", action |-> "scan", confidence |-> 8],
      [id |-> "status", action |-> "status", confidence |-> 8],
      [id |-> "help", action |-> "help", confidence |-> 9]>>

\* pattern.test(normalizedInput)
patternTest(id, w) ==
    CASE id = "addDarkMode" -> matchesAddDarkMode(w)
      [] id = "addDarkWords" -> matchesAddDarkWords(w)
      [] id = "darkMode" -> matchesDarkMode(w)
      [] id = "scan" -> matchesScan(w)
      [] id = "status" -> matchesStatus(w)
      [] id = "help" -> matchesHelp(w)

UnknownMatch == [action |-> "unknown", confidence |-> 0]

\* the for loop over patterns from index i on, with the best match so far
RECURSIVE findBestMatch(_, _, _)
findBestMatch(w, i, bestMatch) ==
    IF i > Len(patterns) THEN bestMatch
    ELSE findBestMatch(w, i + 1,
             IF patternTest(patterns[i].id, w) /\ patterns[i].confidence > bestMatch.confidence
             THEN [action |-> patterns[i].action, confidence |-> patterns[i].confidence]
             ELSE bestMatch)

\* /(?:--dry-run|--preview|--check)/i.test(input)
hasDryRunFlag(words) == \E i \in 1..Len(words) : words[i] = "--dry-run"

\* input.match(/(?:--component|--name)\s+([^\s]+)/i): the word after the
\* first flag that has one, "" when there is none
RECURSIVE componentMatch(_, _)
componentMatch(words, i) ==
    IF i >= Len(words) THEN ""
    ELSE IF words[i] = "--component" THEN words[i + 1]
    ELSE componentMatch(words, i + 1)

\* words ending with with|using|apply|--theme, and the words starting with
\* vercel|supabase|linear|openai|custom
endsWithThemeKeyword == {"with", "using", "--theme"}
startsWithThemeName == {"vercel", "supabase", "linear", "openai", "custom"}

\* the capture group (vercel|supabase|linear|openai|custom) matches at word w
themeNameTest(w) == w \in startsWithThemeName

\* input.match(/(?:with|using|apply|--theme)\s+(vercel|...|custom)\s*(?:theme)?/i):
\* the lowercased capture of the first match, "" when there is none
RECURSIVE themeMatch(_, _)
themeMatch(words, i) ==
    IF i >= Len(words) THEN ""
    ELSE IF toLowerCase(words[i]) \in endsWithThemeKeyword /\ themeNameTest(toLowerCase(words[i + 1]))
         THEN toLowerCase(words[i + 1])
    ELSE themeMatch(words, i + 1)

extractOptions(words) ==
    [dryRun |-> hasDryRunFlag(words), componentName |-> componentMatch(words, 1),
     theme |-> themeMatch(words, 1)]

\* the ParsedCommand built from the best match and the options
parsedCommand(bestMatch, options) ==
    [action |-> bestMatch.action, options |-> options, confidence |-> bestMatch.confidence]

parseCommand(words) ==
    parsedCommand(findBestMatch(normalize(words), 1, UnknownMatch), extractOptions(words))

\* words matching /^[A-Za-z][A-Za-z0-9]*$/
Identifiers == Vocabulary \ {"--dry-run", "--component", "my-toggle"}

\* validation.valid and whether the low-confidence suggestion is made
validateCommand(p) ==
    [valid |-> /\ p.action # "unknown"
               /\ (p.options.componentName # "" => p.options.componentName \in Identifiers),
     lowConfidence |-> p.confidence < 5]

\* the commands the README shows
ReadmeCommands ==
    {<<"add", "dark", "mode">>, <<"add", "dark", "theme">>, <<"enable", "dark", "mode">>,
     <<"add", "theme", "switching">>, <<"enable", "theme", "switching">>,
     <<"enable", "light", "dark", "mode">>, <<"add", "night", "mode", "support">>,
     <<"add", "light", "dark", "mode", "support">>, <<"scan", "project">>,
     <<"check", "status">>, <<"status">>, <<"help">>}

\* the theme names a command may carry: the ids of both versions of
\* BRAND_PRESETS and a name that is in neither
ThemeNames == {"v0", "vercel", "supabase", "linear", "openai", "custom", "acme"}

\* crow "add dark mode with ${recommendation.recommended.themeId} theme"
followUpCommand(themeId) == <<"add", "dark", "mode", "with", themeId, "theme">>

ThemeCommands ==
    {followUpCommand(id) : id \in ThemeNames}
        \cup {<<"dark", "mode", "using", id>> : id \in ThemeNames}
        \cup {<<"add", "dark", "mode", "--theme", id, "--dry-run">> : id \in ThemeNames}
        \cup {<<"scan", "with", id, "theme">> : id \in ThemeNames}

CommandStrings ==
    ReadmeCommands \cup ThemeCommands \cup UNION {[1..n -> Vocabulary] : n \in 1..MaxWords}

NoParsed ==
    [action |-> "unknown",
     options |-> [dryRun |-> FALSE, componentName |-> "", theme |-> ""],
     confidence |-> 0]

NoValidation == [valid |-> FALSE, lowConfidence |-> FALSE]

ParserInit ==
    /\ commandString \in CommandStrings
    /\ parsed = NoParsed
    /\ validation = NoValidation
    /\ ppc = "start"

ParseCommand ==
    /\ ppc = "start"
    /\ parsed' = parseCommand(commandString)
    /\ ppc' = "parsed"
    /\ UNCHANGED <<notParserVars, commandString, validation>>

ValidateCommand ==
    /\ ppc = "parsed"
    /\ validation' = validateCommand(parsed)
    /\ ppc' = "validated"
    /\ UNCHANGED <<notParserVars, commandString, parsed>>

-----------------------------------------------------------------------------
(* THEMING_BEST_PRACTICES.md: BrandExtractor.  A file is the sequence of   *)
(* the colour literals and Tailwind colour classes in its text, in text    *)
(* order.  Saturation, luminance and confidence are fixed-point numbers    *)
(* with Scale units to 1; hue is in degrees.                               *)

Scale == 100000
minSaturation == 20000
minUsage == 2

\* what the regular expressions of extractColorsFromContent match, by kind
HexLiterals ==
    {"#8b5cf6", "#8B5CF6", "#111111", "#12345", "#3b82f6", "#ef4444", "#10b981",
     "#f97316", "#ec4899", "#808080", "#ffff00", "#5c7a99"}
RgbLiterals == {"rgb(139, 92, 246)"}
TailwindBrandClasses == {"bg-blue-500", "text-sky-500"}

Literals == HexLiterals \cup RgbLiterals \cup TailwindBrandClasses

\* chroma(color).hex() for the literals chroma can parse
chromaHex ==
    "#8b5cf6" :> "#8b5cf6" @@ "#8B5CF6" :> "#8b5cf6" @@ "rgb(139, 92, 246)" :> "#8b5cf6"
    @@ "#111111" :> "#111111" @@ "#3b82f6" :> "#3b82f6" @@ "#ef4444" :> "#ef4444"
    @@ "#10b981" :> "#10b981" @@ "#f97316" :> "#f97316" @@ "#ec4899" :> "#ec4899"
    @@ "#808080" :> "#808080" @@ "#ffff00" :> "#ffff00" @@ "#5c7a99" :> "#5c7a99"

\* chroma(color) throws
chromaThrows(color) == color \notin DOMAIN chromaHex

\* get('hsl.s'), luminance() and get('hsl.h') || 0 of the parsed colours
chromaFacts ==
    "#8b5cf6" :> [s |-> 89535, luminance |-> 19797, h |-> 258]
    @@ "#111111" :> [s |-> 0, luminance |-> 561, h |-> 0]
    @@ "#3b82f6" :> [s |-> 91220, luminance |-> 23549, h |-> 217]
    @@ "#ef4444" :> [s |-> 84236, luminance |-> 22902, h |-> 0]
    @@ "#10b981" :> [s |-> 84080, luminance |-> 36393, h |-> 160]
    @@ "#f97316" :> [s |-> 94979, luminance |-> 32459, h |-> 24]
    @@ "#ec4899" :> [s |-> 81188, luminance |-> 24768, h |-> 330]
    @@ "#808080" :> [s |-> 0, luminance |-> 21586, h |-> 0]
    @@ "#ffff00" :> [s |-> 100000, luminance |-> 92780, h |-> 60]
    @@ "#5c7a99" :> [s |-> 24898, luminance |-> 18494, h |-> 210]

normalizeColor(color) == IF chromaThrows(color) THEN color ELSE chromaHex[color]

isValidBrandColor(color) ==
    /\ ~chromaThrows(color)
    /\ chromaFacts[chromaHex[color]].s >= minSaturation
    /\ chromaFacts[chromaHex[color]].luminance * 10 > Scale
    /\ chromaFacts[chromaHex[color]].luminance * 10 < 9 * Scale

\* tailwindClassToHex: null is ""
tailwindClassToHex(colorClass) ==
    IF colorClass = "bg-blue-500" THEN "#3b82f6" ELSE ""

\* the index of color in the Map, 0 when absent
indexOfColor(map, color) ==
    IF \E i \in 1..Len(map) : map[i].color = color
    THEN CHOOSE i \in 1..Len(map) : map[i].color = color
    ELSE 0

\* colorMap.get(color) || {usage: 0, locations: []}; usage++; locations; colorMap.set
recordUsage(map, color, filePath) ==
    IF indexOfColor(map, color) = 0
    THEN Append(map, [color |-> color, usage |-> 1, locations |-> {filePath}])
    ELSE [map EXCEPT ![indexOfColor(map, color)] =
             [color |-> color, usage |-> @.usage + 1,
              locations |-> @.locations \cup {filePath}]]

\* a loop without the try/catch of the callback: the first throw ends it
RECURSIVE forEachColor_Abort(_, _, _, _)
forEachColor_Abort(allColors, i, filePath, map) ==
    IF i > Len(allColors) \/ chromaThrows(allColors[i]) THEN map
    ELSE forEachColor_Abort(allColors, i + 1, filePath,
             IF isValidBrandColor(normalizeColor(allColors[i]))
             THEN recordUsage(map, normalizeColor(allColors[i]), filePath)
             ELSE map)

\* allColors.forEach over the literals from index i on
RECURSIVE forEachColor(_, _, _, _)
forEachColor(allColors, i, filePath, map) ==
    IF i > Len(allColors) THEN map
    ELSE forEachColor(allColors, i + 1, filePath,
             IF isValidBrandColor(normalizeColor(allColors[i]))
             THEN recordUsage(map, normalizeColor(allColors[i]), filePath)
             ELSE map)

\* tailwindBrandColors.forEach over the classes from index i on
RECURSIVE forEachBrandClass(_, _, _, _)
forEachBrandClass(classes, i, filePath, map) ==
    IF i > Len(classes) THEN map
    ELSE forEachBrandClass(classes, i + 1, filePath,
             IF tailwindClassToHex(classes[i]) # ""
             THEN recordUsage(map, tailwindClassToHex(classes[i]), filePath)
             ELSE map)

\* [...hexColors, ...rgbColors, ...hslColors]
allColorsOf(content) ==
    SelectSeq(content, LAMBDA l : l \in HexLiterals)
        \o SelectSeq(content, LAMBDA l : l \in RgbLiterals)

extractColorsFromContent(content, filePath, map) ==
    forEachBrandClass(SelectSeq(content, LAMBDA l : l \in TailwindBrandClasses), 1, filePath,
        forEachColor(allColorsOf(content), 1, filePath, map))

\* extractFromComponents, extractFromCSS, extractFromConfigs: the files from index i on
RECURSIVE extractFromFiles(_, _, _)
extractFromFiles(projectFiles, i, map) ==
    IF i > Len(projectFiles) THEN map
    ELSE extractFromFiles(projectFiles, i + 1,
             extractColorsFromContent(projectFiles[i], i, map))

\* a filter that lets every counted colour through
meetsMinUsage_Any(data) == TRUE

\* data.usage >= this.minUsage
meetsMinUsage(data) == data.usage >= minUsage

\* the ExtractedBrandColor pushed for a Map entry
extractedColor(data) ==
    [color |-> data.color, usage |-> data.usage, locations |-> data.locations,
     saturation |-> chromaFacts[data.color].s,
     luminance |-> chromaFacts[data.color].luminance,
     type |-> "neutral"]

\* a comparator with its operands exchanged
sortsAfter_Ascending(a, b) == a.usage * a.saturation - b.usage * b.saturation > 0

\* the comparator (b.usage * b.saturation) - (a.usage * a.saturation) is positive
sortsAfter(a, b) == b.usage * b.saturation - a.usage * a.saturation > 0

\* Array.prototype.sort is stable: c goes behind every element it does not precede
RECURSIVE insertSorted(_, _)
insertSorted(sorted, c) ==
    IF sorted = <<>> THEN <<c>>
    ELSE IF sortsAfter(Head(sorted), c) THEN <<c>> \o sorted
    ELSE <<Head(sorted)>> \o insertSorted(Tail(sorted), c)

RECURSIVE sortColors(_, _, _)
sortColors(colors, i, sorted) ==
    IF i > Len(colors) THEN sorted
    ELSE sortColors(colors, i + 1, insertSorted(sorted, colors[i]))

\* the pushed colours, in Map order
RECURSIVE pushColors(_, _)
pushColors(map, i) ==
    IF i > Len(map) THEN <<>>
    ELSE (IF meetsMinUsage(map[i]) /\ ~chromaThrows(map[i].color)
          THEN <<extractedColor(map[i])>> ELSE <<>>)
         \o pushColors(map, i + 1)

processExtractedColors(map) == sortColors(pushColors(map, 1), 1, <<>>)

classifyColors(colors) ==
    [i \in 1..Len(colors) |->
        [colors[i] EXCEPT !.type =
            IF i = 1 THEN "primary"
            ELSE IF i = 2 THEN "secondary"
            ELSE IF i <= 5 /\ colors[i].saturation * 10 > 6 * Scale THEN "accent"
            ELSE @]]

\* classified.find(c => c.type === type) || null
NoColor == [color |-> "null"]
RECURSIVE findType(_, _, _)
findType(classified, i, type) ==
    IF i > Len(classified) THEN NoColor
    ELSE IF classified[i].type = type THEN classified[i]
    ELSE findType(classified, i + 1, type)

\* warm, cool or neutral by hue
temperatureOf(c) ==
    IF chromaFacts[c.color].h <= 60 \/ chromaFacts[c.color].h >= 300 THEN "warm"
    ELSE IF chromaFacts[c.color].h >= 120 /\ chromaFacts[c.color].h <= 240 THEN "cool"
    ELSE "neutral"

\* Object.keys(counts): the temperatures in order of first occurrence
RECURSIVE temperatureKeys(_, _, _)
temperatureKeys(colors, i, keys) ==
    IF i > Len(colors) THEN keys
    ELSE temperatureKeys(colors, i + 1,
             IF \E k \in 1..Len(keys) : keys[k] = temperatureOf(colors[i])
             THEN keys ELSE Append(keys, temperatureOf(colors[i])))

temperatureCount(colors, t) ==
    Cardinality({i \in 1..Len(colors) : temperatureOf(colors[i]) = t})

\* Object.keys(counts).reduce((a, b) => counts[a] > counts[b] ? a : b)
RECURSIVE reduceTemperature(_, _, _, _)
reduceTemperature(colors, keys, i, a) ==
    IF i > Len(keys) THEN a
    ELSE reduceTemperature(colors, keys, i + 1,
             IF temperatureCount(colors, a) > temperatureCount(colors, keys[i])
             THEN a ELSE keys[i])

firstKeyReduce(colors, keys) == reduceTemperature(colors, keys, 2, keys[1])

analyzeTemperature(colors) ==
    IF Len(colors) = 0 THEN "neutral"
    ELSE firstKeyReduce(colors, temperatureKeys(colors, 1, <<>>))

min(a, b) == IF a < b THEN a ELSE b

\* BrandExtractor.calculateConfidence, in units of 1 / (9 * Scale)
brandConfidence(colors) ==
    IF Len(colors) = 0 THEN 0
    ELSE (min(colors[1].usage * 3 * Scale, 30 * Scale)
          + 30 * colors[1].saturation
          + min(Cardinality(colors[1].locations) * 10 * Scale, 30 * Scale)) \div 10

profileOf(classified) ==
    [primary |-> findType(classified, 1, "primary"),
     secondary |-> findType(classified, 1, "secondary"),
     accent |-> findType(classified, 1, "accent"),
     palette |-> classified,
     temperature |-> analyzeTemperature(classified),
     confidence |-> brandConfidence(classified)]

createBrandProfile(colors) == profileOf(classifyColors(colors))

RECURSIVE repeat(_, _)
repeat(l, n) == IF n = 0 THEN <<>> ELSE <<l>> \o repeat(l, n - 1)

\* `#8b5cf6` 5 times across 2 files and `#111111` 20 times in 1 file
ScenarioProject ==
    <<repeat("#8b5cf6", 3), repeat("#8b5cf6", 2), repeat("#111111", 20)>>

\* six qualifying colours, each used in two files
SixColours == <<"#8b5cf6", "#3b82f6", "#ef4444", "#10b981", "#f97316", "#ec4899">>

ManyColoursProject == <<SixColours, SixColours>>

\* a primary colour used ten times in three files, and an empty second file
WidelyUsedProject == <<repeat("#f97316", 5), repeat("#f97316", 3), repeat("#f97316", 2)>>

BrandProjects ==
    {<<>>, ScenarioProject, ManyColoursProject, WidelyUsedProject}
        \cup {<<content>> : content \in UNION {[1..n -> Literals] : n \in 0..MaxLiterals}}
        \cup {<<content, content>> : content \in UNION {[1..n -> Literals] : n \in 1..MaxLiterals}}

NoProfile ==
    [primary |-> NoColor, secondary |-> NoColor, accent |-> NoColor, palette |-> <<>>,
     temperature |-> "neutral", confidence |-> 0]

BrandInit ==
    /\ brandFiles \in BrandProjects
    /\ brandColorMap = <<>>
    /\ processedColors = <<>>
    /\ brandProfile = NoProfile
    /\ brandpc = "start"

\* extractFromComponents, extractFromCSS, extractFromConfigs
ExtractColors ==
    /\ brandpc = "start"
    /\ brandColorMap' = extractFromFiles(brandFiles, 1, <<>>)
    /\ brandpc' = "extracted"
    /\ UNCHANGED <<notBrandVars, brandFiles, processedColors, brandProfile>>

ProcessExtractedColors ==
    /\ brandpc = "extracted"
    /\ processedColors' = processExtractedColors(brandColorMap)
    /\ brandpc' = "processed"
    /\ UNCHANGED <<notBrandVars, brandFiles, brandColorMap, brandProfile>>

\* analyzeTemperature calls chroma(c.color) outside any try block
profileThrows(colors) == \E i \in 1..Len(colors) : chromaThrows(colors[i].color)

CreateBrandProfile ==
    /\ brandpc = "processed"
    /\ IF profileThrows(processedColors)
       THEN brandProfile' = brandProfile /\ brandpc' = "throws"
       ELSE brandProfile' = createBrandProfile(processedColors) /\ brandpc' = "done"
    /\ UNCHANGED <<notBrandVars, brandFiles, brandColorMap, processedColors>>

-----------------------------------------------------------------------------
(* THEMING_BEST_PRACTICES.md: PatternClassifier.  Features and scores are  *)
(* in hundredths.                                                          *)

\* Object.keys(scores)
archetypes == <<"corporate", "modern", "developer", "creative">>

scoreCorporate(f) ==
    (IF f.colorComplexity < 30 THEN 25 ELSE 0)
    + (IF f.spacingPatterns > 70 THEN 25 ELSE 0)
    + (IF f.typographyVariance < 40 THEN 25 ELSE 0)
    + (IF f.componentComplexity < 50 THEN 25 ELSE 0)

scoreModern(f) ==
    (IF f.colorComplexity >= 30 /\ f.colorComplexity <= 60 THEN 25 ELSE 0)
    + (IF f.spacingPatterns > 80 THEN 25 ELSE 0)
    + (IF f.framework \in {"react", "nextjs"} THEN 25 ELSE 0)
    + (IF f.componentCount > 10 THEN 25 ELSE 0)

scoreDevToolPatterns(f) ==
    min((IF f.componentCount > 20 THEN 30 ELSE 0)
        + (IF f.componentComplexity > 70 THEN 40 ELSE 0)
        + (IF f.colorComplexity > 50 THEN 30 ELSE 0), 100)

scoreDeveloper(f) ==
    min((IF f.colorComplexity > 60 THEN 25 ELSE 0)
        + (IF f.componentComplexity > 60 THEN 25 ELSE 0)
        + (IF f.framework \in {"vue", "nuxt"} THEN 10 ELSE 0)
        + (scoreDevToolPatterns(f) * 4) \div 10, 100)

scoreCreative(f) ==
    (IF f.colorComplexity > 70 THEN 30 ELSE 0)
    + (IF f.typographyVariance > 60 THEN 30 ELSE 0)
    + (IF f.componentComplexity > 50 THEN 20 ELSE 0)
    + (IF f.componentCount > 15 THEN 20 ELSE 0)

scoresOf(f) ==
    [corporate |-> scoreCorporate(f), modern |-> scoreModern(f),
     developer |-> scoreDeveloper(f), creative |-> scoreCreative(f)]

\* a reduce that always keeps its accumulator
RECURSIVE reduceKeys_First(_, _, _)
reduceKeys_First(scores, i, a) ==
    IF i > Len(archetypes) THEN a ELSE reduceKeys_First(scores, i + 1, a)

\* Object.keys(scores).reduce((a, b) => scores[a] > scores[b] ? a : b)
RECURSIVE reduceKeys(_, _, _)
reduceKeys(scores, i, a) ==
    IF i > Len(archetypes) THEN a
    ELSE reduceKeys(scores, i + 1, IF scores[a] > scores[archetypes[i]] THEN a ELSE archetypes[i])

classifyArchetype(f) == reduceKeys(scoresOf(f), 2, archetypes[1])

\* Math.max over the scores of the other archetypes
maxOtherScore(scores, selected) ==
    CHOOSE m \in {scores[k] : k \in DOMAIN scores \ {selected}} :
        \A k \in DOMAIN scores \ {selected} : scores[k] <= m

calculateConfidence(f, selected) ==
    min(scoresOf(f)[selected] - maxOtherScore(scoresOf(f), selected) + 50, 100)

\* feature values on both sides of, and on, every threshold of the rubrics
FeatureVectors ==
    [colorComplexity : {0, 20, 30, 40, 50, 55, 60, 65, 70, 80, 100},
     spacingPatterns : {0, 70, 75, 80, 90, 100},
     typographyVariance : {10, 40, 50, 60, 70},
     componentComplexity : {20, 50, 55, 60, 65, 70, 80},
     componentCount : {0, 10, 11, 15, 16, 20, 21},
     framework : {"react", "nextjs", "vue", "nuxt", "unknown"}]

NoFeatures ==
    [colorComplexity |-> 0, spacingPatterns |-> 0, typographyVariance |-> 0,
     componentComplexity |-> 0, componentCount |-> 0, framework |-> "unknown"]

ClassifierInit ==
    /\ features \in FeatureVectors
    /\ archetype = "none"
    /\ designConfidence = 0
    /\ clfpc = "start"

\* const archetype = this.classifyArchetype(features)
ClassifyArchetype ==
    /\ clfpc = "start"
    /\ archetype' = classifyArchetype(features)
    /\ clfpc' = "classified"
    /\ UNCHANGED <<notClassifierVars, features, designConfidence>>

\* confidence: this.calculateConfidence(features, archetype)
CalculateConfidence ==
    /\ clfpc = "classified"
    /\ designConfidence' = calculateConfidence(features, archetype)
    /\ clfpc' = "done"
    /\ UNCHANGED <<notClassifierVars, features, archetype>>

-----------------------------------------------------------------------------
(* adaptive/smart-recommender.ts.  Match values are in hundredths, scores  *)
(* in ten-thousandths.                                                     *)

\* Object.values(BRAND_PRESETS): id and the light and dark surface colours
getAllThemePresets ==
    IF catalog = "legacy"
    THEN <<[id |-> "vercel", light |-> <<"#ffffff", "#000000">>, dark |-> <<"#000000", "#ffffff">>],
           [id |-> "supabase", light |-> <<"#ffffff", "#1f2937">>, dark |-> <<"#0f172a", "#f8fafc">>],
           [id |-> "linear", light |-> <<"#ffffff", "#18181b">>, dark |-> <<"#09090b", "#fafafa">>],
           [id |-> "openai", light |-> <<"#ffffff", "#2d3748">>, dark |-> <<"#1a202c", "#f7fafc">>],
           [id |-> "custom", light |-> <<"#ffffff", "#1f2937">>, dark |-> <<"#111827", "#f9fafb">>]>>
    ELSE <<[id |-> "v0", light |-> <<"#ffffff", "#0a0a0a">>, dark |-> <<"#0a0a0a", "#fafafa">>],
           [id |-> "supabase", light |-> <<"#ffffff", "#1f2937">>, dark |-> <<"#0a0a0a", "#f8fafc">>],
           [id |-> "linear", light |-> <<"#ffffff", "#18181b">>, dark |-> <<"#09090b", "#fafafa">>],
           [id |-> "openai", light |-> <<"#ffffff", "#1f2937">>, dark |-> <<"#0a0a0a", "#f9fafb">>],
           [id |-> "custom", light |-> <<"#ffffff", "#1f2937">>, dark |-> <<"#111827", "#f9fafb">>]>>

\* chroma(color).luminance() of the surface colours, in units of 1 / Scale
surfaceLuminance ==
    "#ffffff" :> 100000 @@ "#000000" :> 0 @@ "#1f2937" :> 2153 @@ "#0f172a" :> 882
    @@ "#f8fafc" :> 95356 @@ "#18181b" :> 927 @@ "#09090b" :> 278 @@ "#fafafa" :> 95597
    @@ "#2d3748" :> 3758 @@ "#1a202c" :> 1434 @@ "#f7fafc" :> 95174 @@ "#111827" :> 919
    @@ "#f9fafb" :> 95476 @@ "#0a0a0a" :> 304

\* Math.min(chroma.contrast(a, b) / 4.5, 1.0), in hundredths
contrastScore(pair) ==
    IF surfaceLuminance[pair[1]] >= surfaceLuminance[pair[2]]
    THEN min(((surfaceLuminance[pair[1]] + 5000) * 1000)
                 \div ((surfaceLuminance[pair[2]] + 5000) * 45), 100)
    ELSE min(((surfaceLuminance[pair[2]] + 5000) * 1000)
                 \div ((surfaceLuminance[pair[1]] + 5000) * 45), 100)

scoreAccessibility(theme) == (contrastScore(theme.light) + contrastScore(theme.dark)) \div 2

\* chroma(primaryColor).get('hsl.h') || 0
primaryHue(profile) == chromaFacts[profile.primary.color].h

scoreBrandCompatibility(theme, profile) ==
    IF profile.primary = NoColor THEN 70
    ELSE IF theme.id = "v0" THEN (IF profile.primary.saturation * 10 < 3 * Scale THEN 90 ELSE 40)
    ELSE IF theme.id = "linear"
         THEN (IF primaryHue(profile) >= 240 /\ primaryHue(profile) <= 300 THEN 95
               ELSE IF primaryHue(profile) >= 200 /\ primaryHue(profile) <= 340 THEN 80 ELSE 60)
    ELSE IF theme.id = "supabase"
         THEN (IF primaryHue(profile) >= 120 /\ primaryHue(profile) <= 160 THEN 95
               ELSE IF primaryHue(profile) >= 100 /\ primaryHue(profile) <= 180 THEN 80 ELSE 50)
    ELSE IF theme.id = "openai"
         THEN (IF primaryHue(profile) >= 180 /\ primaryHue(profile) <= 240 THEN 95
               ELSE IF primaryHue(profile) >= 160 /\ primaryHue(profile) <= 260 THEN 80 ELSE 70)
    ELSE 50

compatibility ==
    [v0 |-> [corporate |-> 95, modern |-> 80, developer |-> 60, creative |-> 30],
     linear |-> [corporate |-> 70, modern |-> 95, developer |-> 90, creative |-> 80],
     supabase |-> [corporate |-> 80, modern |-> 85, developer |-> 90, creative |-> 70],
     openai |-> [corporate |-> 75, modern |-> 90, developer |-> 95, creative |-> 60]]

\* compatibility[theme.id]?.[archetype] || 0.5
scoreArchetypeCompatibility(theme, arch) ==
    IF theme.id \in DOMAIN compatibility /\ arch \in DOMAIN compatibility[theme.id]
    THEN compatibility[theme.id][arch] ELSE 50

scoreTheme(theme, profile, arch) ==
    [themeId |-> theme.id,
     brandMatch |-> scoreBrandCompatibility(theme, profile),
     archetypeMatch |-> scoreArchetypeCompatibility(theme, arch),
     accessibilityScore |-> scoreAccessibility(theme),
     score |-> scoreBrandCompatibility(theme, profile) * 40
               + scoreArchetypeCompatibility(theme, arch) * 35
               + scoreAccessibility(theme) * 25]

\* a comparator with its operands exchanged
scoreSortsAfter_Ascending(a, b) == a.score - b.score > 0

\* the comparator b.score - a.score is positive
scoreSortsAfter(a, b) == b.score - a.score > 0

\* scores.sort: a stable sort; the first i scores are already in place
RECURSIVE sortScores(_, _)
sortScores(scores, i) ==
    IF i > Len(scores) THEN <<>>
    ELSE SelectSeq(sortScores(scores, i + 1), LAMBDA s : scoreSortsAfter(scores[i], s))
         \o <<scores[i]>>
         \o SelectSeq(sortScores(scores, i + 1), LAMBDA s : ~scoreSortsAfter(scores[i], s))

\* the brand profiles extraction can hand over: no primary, or a qualifying one
PrimaryColours ==
    {NoColor} \cup
    {extractedColor([color |-> normalizeColor(l), usage |-> minUsage, locations |-> {1}]) :
        l \in {x \in HexLiterals \cup RgbLiterals : isValidBrandColor(x)}}

NoRecommendation == [recommended |-> "undefined", alternatives |-> <<>>]

RecommenderInit ==
    /\ catalog \in Catalogs
    /\ recProfile \in {[NoProfile EXCEPT !.primary = p] : p \in PrimaryColours}
    /\ recArchetype \in {archetypes[i] : i \in 1..Len(archetypes)}
    /\ themeScores = <<>>
    /\ recommendation = NoRecommendation
    /\ recpc = "start"

\* const scores = themes.map(theme => this.scoreTheme(theme, brandProfile, archetype))
ScoreThemes ==
    /\ recpc = "start"
    /\ themeScores' = [i \in 1..Len(getAllThemePresets) |->
                          scoreTheme(getAllThemePresets[i], recProfile, recArchetype)]
    /\ recpc' = "scored"
    /\ UNCHANGED <<notRecommenderVars, recProfile, recArchetype, recommendation>>

\* scores.sort(...); return {recommended: scores[0], alternatives: scores.slice(1, 4)}
RecommendTheme ==
    /\ recpc = "scored"
    /\ themeScores' = sortScores(themeScores, 1)
    /\ IF Len(themeScores) = 0
       THEN recommendation' = recommendation /\ recpc' = "throws"
       ELSE /\ recommendation' =
                 [recommended |-> themeScores'[1],
                  alternatives |-> SubSeq(themeScores', 2, min(4, Len(themeScores)))]
            /\ recpc' = "done"
    /\ UNCHANGED <<notRecommenderVars, recProfile, recArchetype>>

-----------------------------------------------------------------------------
(* themes/rules.ts and themes/validator.ts.  Contrast ratios are in        *)
(* hundredths.                                                             *)

\* grade bands with C+ and C exchanged
getGradeFromScore_Swapped(score) ==
    IF score >= 97 THEN "A+" ELSE IF score >= 93 THEN "A" ELSE IF score >= 90 THEN "B+"
    ELSE IF score >= 87 THEN "B" ELSE IF score >= 83 THEN "C" ELSE IF score >= 80 THEN "C+"
    ELSE IF score >= 70 THEN "D" ELSE "F"

getGradeFromScore(score) ==
    IF score >= 97 THEN "A+" ELSE IF score >= 93 THEN "A" ELSE IF score >= 90 THEN "B+"
    ELSE IF score >= 87 THEN "B" ELSE IF score >= 83 THEN "C+" ELSE IF score >= 80 THEN "C"
    ELSE IF score >= 70 THEN "D" ELSE "F"

\* getLuminance(hexToRgb(hex)) in units of 1 / Scale; hexToRgb is null for
\* strings outside the table ("#fff" has three digits)
getLuminance ==
    "#ffffff" :> 100000 @@ "#000000" :> 0 @@ "#949494" :> 29614 @@ "#767676" :> 18116
    @@ "#3b82f6" :> 23549 @@ "#10b981" :> 36393 @@ "#e5e5e5" :> 78354 @@ "#333333" :> 3310

calculateContrastRatio(color1, color2) ==
    IF color1 \notin DOMAIN getLuminance \/ color2 \notin DOMAIN getLuminance THEN 100
    ELSE IF getLuminance[color1] >= getLuminance[color2]
    THEN ((getLuminance[color1] + 5000) * 100) \div (getLuminance[color2] + 5000)
    ELSE ((getLuminance[color2] + 5000) * 100) \div (getLuminance[color1] + 5000)

\* ratio.toFixed(1), in tenths
toFixed1(ratio) == (ratio + 5) \div 10

\* the ids and categories of THEME_QUALITY_RULES, in order
THEME_QUALITY_RULES ==
    <<[id |-> "contrast-aa-text", category |-> "contrast"],
      [id |-> "contrast-button-text", category |-> "contrast"],
      [id |-> "color-harmony-primary-accent", category |-> "harmony"],
      [id |-> "semantic-muted-lightness", category |-> "semantic"],
      [id |-> "semantic-border-subtlety", category |-> "semantic"],
      [id |-> "animation-duration-consistency", category |-> "animation"]>>

\* a contrast rule's result: passed, and the message with the two measured ratios
contrastResult(lightRatio, darkRatio, minRatio, okMessage, lowMessage) ==
    IF lightRatio >= minRatio /\ darkRatio >= minRatio
    THEN [passed |-> TRUE, message |-> <<okMessage>>]
    ELSE [passed |-> FALSE,
          message |-> <<lowMessage, toFixed1(lightRatio), toFixed1(darkRatio)>>]

\* rule.validate(theme)
ruleValidate(id, theme) ==
    IF id = "contrast-aa-text"
    THEN contrastResult(calculateContrastRatio(theme.light.foreground, theme.light.background),
                        calculateContrastRatio(theme.dark.foreground, theme.dark.background),
                        450, "Text contrast meets WCAG AA standards", "Text contrast too low")
    ELSE IF id = "contrast-button-text"
    THEN contrastResult(calculateContrastRatio("#ffffff", theme.light.primary),
                        calculateContrastRatio("#ffffff", theme.dark.primary),
                        300, "Button text contrast is adequate", "Button contrast too low")
    ELSE IF id = "color-harmony-primary-accent"
    THEN (IF theme.light.primary # theme.light.accent
          THEN [passed |-> TRUE, message |-> <<"Primary and accent colors are distinct">>]
          ELSE [passed |-> FALSE, message |-> <<"Primary and accent colors are identical">>])
    ELSE IF id = "semantic-muted-lightness"
    THEN [passed |-> TRUE, message |-> <<"Muted colors are appropriately lighter/darker">>]
    ELSE IF id = "semantic-border-subtlety"
    THEN (IF theme.light.border # theme.light.foreground
             /\ theme.dark.border # theme.dark.foreground
          THEN [passed |-> TRUE, message |-> <<"Border colors are appropriately subtle">>]
          ELSE [passed |-> FALSE, message |-> <<"Border colors too similar to text">>])
    ELSE [passed |-> TRUE, message |-> <<"Animation durations are consistent">>]

\* Math.round((passedRules / totalRules) * 100)
roundedPercent(passedRules, totalRules) ==
    (200 * passedRules + totalRules) \div (2 * totalRules)

validationOf(results) ==
    [score |-> roundedPercent(Cardinality({i \in DOMAIN results : results[i].result.passed}),
                              Len(results)),
     passed |-> roundedPercent(Cardinality({i \in DOMAIN results : results[i].result.passed}),
                               Len(results)) >= 80,
     results |-> results]

validateTheme(theme) ==
    validationOf([i \in 1..Len(THEME_QUALITY_RULES) |->
                     [rule |-> THEME_QUALITY_RULES[i],
                      result |-> ruleValidate(THEME_QUALITY_RULES[i].id, theme)]])

getSeverityFromCategory(category) ==
    IF category = "contrast" THEN "error"
    ELSE IF category \in {"color", "semantic"} THEN "warning"
    ELSE "info"

\* the issue made of a failed rule's result
issueOf(r) ==
    [category |-> r.rule.category, severity |-> getSeverityFromCategory(r.rule.category),
     message |-> r.result.message]

resultOf(v) ==
    [score |-> v.score,
     grade |-> getGradeFromScore(v.score),
     passed |-> v.passed,
     issues |-> [i \in 1..Len(SelectSeq(v.results, LAMBDA r : ~r.result.passed)) |->
                    issueOf(SelectSeq(v.results, LAMBDA r : ~r.result.passed)[i])]]

validateSingleTheme(theme) == resultOf(validateTheme(theme))

\* presets with contrasts on both sides of the thresholds, a malformed hex
\* value, equal primary and accent, and borders equal to the text colour
Themes ==
    [light : [foreground : {"#000000", "#949494", "#767676"}, background : {"#ffffff"},
              primary : {"#3b82f6", "#ffffff"}, accent : {"#3b82f6", "#10b981"},
              border : {"#000000", "#e5e5e5"}],
     dark : [foreground : {"#ffffff", "#949494"}, background : {"#000000", "#fff"},
             primary : {"#3b82f6", "#10b981"}, border : {"#ffffff", "#333333"}]]

NoValidationResult == [score |-> 0, grade |-> "none", passed |-> FALSE, issues |-> <<>>]

NoThemeArg ==
    [light |-> [foreground |-> "", background |-> "", primary |-> "", accent |-> "",
                border |-> ""],
     dark |-> [foreground |-> "", background |-> "", primary |-> "", border |-> ""]]

ValidatorInit ==
    /\ valTheme \in Themes
    /\ scoreArg \in 0..100
    /\ gradeOut = "none"
    /\ valResult = NoValidationResult
    /\ vpc = "start"

\* a call of getGradeFromScore
GetGradeFromScore ==
    /\ vpc = "start"
    /\ gradeOut' = getGradeFromScore(scoreArg)
    /\ vpc' = "graded"
    /\ UNCHANGED <<notValidatorVars, valTheme, scoreArg, valResult>>

\* a call of validateSingleTheme
ValidateSingleTheme ==
    /\ vpc = "graded"
    /\ valResult' = validateSingleTheme(valTheme)
    /\ vpc' = "done"
    /\ UNCHANGED <<notValidatorVars, valTheme, scoreArg, gradeOut>>

-----------------------------------------------------------------------------
(* cli/interactive/dashboard.ts: DarkModeWizard.start.  The wizard runs    *)
(* addDarkModeCommand in the same process on the same project files.       *)

\* the answers collectOptions can return that addDarkModeCommand reads
WizardAnswers == [backup : BOOLEAN, dryRun : BOOLEAN, commit : BOOLEAN, theme : BatchThemes]

\* the options object implementDarkMode hands to addDarkModeCommand
commandOptions(answers) ==
    [dryRun |-> FALSE, force |-> FALSE, backup |-> answers.backup,
     noCommit |-> ~(IF answers.dryRun THEN TRUE ELSE answers.commit),
     theme |-> answers.theme]

\* analysis.darkModeEnabled of a fresh analyzeProject
darkModeDetected == analyzeProject(disk, configFile, cssFile).darkModeEnabled

WizardInit ==
    /\ catalog = "legacy"
    /\ opts = NoOptions
    /\ framework \in Frameworks
    /\ disk \in [Paths -> DiskEntries]
    /\ configFile \in {Missing, DefaultConfig, ConfiguredConfig}
    /\ cssFile \in {Missing, DefaultCss, ConfiguredCss}
    /\ toggleFile \in BOOLEAN
    /\ analysis = NoAnalysis
    /\ summary = NoSummary
    /\ backups = NoBackup
    /\ layoutPatched = FALSE
    /\ commits = 0
    /\ cmdpc = "off"
    /\ proceed = "none"
    /\ handledExistingSetup = FALSE
    /\ midAction = "none"
    /\ wizpc = "start"

\* Step 0: checkExistingSetup; 'keep' and 'exit' end the process
CheckExistingSetup ==
    /\ wizpc = "start"
    /\ IF darkModeDetected
       THEN \E choice \in {"switch", "overwrite", "keep", "exit"} :
               /\ proceed' = choice
               /\ handledExistingSetup' = (choice \in {"switch", "overwrite"})
               /\ wizpc' = IF choice \in {"keep", "exit"} THEN "exited" ELSE "checked"
       ELSE /\ wizpc' = "checked"
            /\ UNCHANGED <<proceed, handledExistingSetup>>
    /\ UNCHANGED <<notWizardVars, opts, cmdpc, midAction>>

\* Steps 1 and 2: collectOptions, and the confirmation after the preview
CollectOptions ==
    /\ wizpc = "checked"
    /\ \E answers \in WizardAnswers, applyChanges \in BOOLEAN :
          /\ opts' = commandOptions(answers)
          /\ wizpc' = IF answers.dryRun /\ ~applyChanges THEN "cancelled" ELSE "collected"
    /\ UNCHANGED <<notWizardVars, cmdpc, proceed, handledExistingSetup, midAction>>

\* implementDarkMode: the checkForMidProcessDarkMode prompts before the command
\* is called; 'cancel' at any of them ends the process
CheckForMidProcessDarkMode ==
    /\ wizpc = "collected"
    /\ IF darkModeDetected
       THEN \E action \in {"continue", "overwrite", "cancel"} :
               /\ midAction' = action
               /\ wizpc' = IF action = "cancel" THEN "exited" ELSE "confirmed"
       ELSE wizpc' = "confirmed" /\ midAction' = midAction
    /\ UNCHANGED <<notWizardVars, opts, cmdpc, proceed, handledExistingSetup>>

\* implementDarkMode: await addDarkModeCommand({...})
ImplementDarkMode ==
    /\ wizpc = "confirmed"
    /\ cmdpc' = "start"
    /\ wizpc' = "implementing"
    /\ UNCHANGED <<notWizardVars, opts, proceed, handledExistingSetup, midAction>>

\* Step 4: showSuccess once addDarkModeCommand has returned
ShowSuccess ==
    /\ wizpc = "implementing"
    /\ cmdpc \in {"returned", "done"}
    /\ wizpc' = "success"
    /\ UNCHANGED <<notWizardVars, opts, cmdpc, proceed, handledExistingSetup, midAction>>

-----------------------------------------------------------------------------
(* core/transformer.ts: transformFile by dialect, run twice on one file.   *)
(* Besides plain text and quoted class attributes a React content can hold *)
(* a className whose value is a template literal: a segment that is not an *)
(* attribute of the regular expressions but carries a class string.        *)

Quasi(classString) == [attr |-> FALSE, value |-> classString]

isQuasi(seg) == ~seg.attr /\ seg.value # <<>>

\* the TemplateLiteral branch of the JSXAttribute visitor pushes the raw string
quasiPushed(seg, themeId) ==
    /\ isQuasi(seg)
    /\ themeId # NoTheme \/ ~hasExistingDarkVariant(seg.value)
    /\ transformTailwindClasses(seg.value, themeId) # seg.value

\* transformedClasses of the visitor from segment i on, r being the outcome of
\* the string literals
RECURSIVE visitorClasses(_, _, _, _)
visitorClasses(content, r, i, themeId) ==
    IF i > Len(content) THEN <<>>
    ELSE (IF r[i].changed \/ quasiPushed(content[i], themeId)
          THEN <<content[i].value>> ELSE <<>>)
         \o visitorClasses(content, r, i + 1, themeId)

transformGeneric(content, themeId) == transformContent(content, themeId)

transformHtmlContent(content, themeId) == transformContent(content, themeId)

\* parses: @babel/parser accepts the content
transformReactFile(content, themeId, parses) ==
    IF ~parses THEN transformGeneric(content, themeId)
    ELSE IF \A i \in 1..Len(content) : ~transformSegment(content[i], themeId).changed
         THEN transformGeneric(content, themeId)
    ELSE [content |-> [i \in 1..Len(content) |-> transformSegment(content[i], themeId).seg],
          transformedClasses |->
              visitorClasses(content,
                             [i \in 1..Len(content) |-> transformSegment(content[i], themeId)],
                             1, themeId)]

\* parses: @vue/compiler-sfc accepts the content; the template is the content
transformVueFile(content, themeId, parses) ==
    IF ~parses THEN transformGeneric(content, themeId)
    ELSE transformHtmlContent(content, themeId)

\* the switch of transformFile on file.framework and on the file extension
transformByFramework(file, content, themeId, parses) ==
    IF file.framework \in {"react", "nextjs"} THEN transformReactFile(content, themeId, parses)
    ELSE IF file.framework \in {"vue", "nuxt"} THEN transformVueFile(content, themeId, parses)
    ELSE IF file.framework = "html" THEN transformHtmlContent(content, themeId)
    ELSE IF file.ext \in {".jsx", ".tsx"} THEN transformReactFile(content, themeId, parses)
    ELSE IF file.ext = ".vue" THEN transformVueFile(content, themeId, parses)
    ELSE IF file.ext = ".html" THEN transformHtmlContent(content, themeId)
    ELSE transformGeneric(content, themeId)

\* content, transformedClasses and changesCount of one transformFile call
passResult(t) ==
    [content |-> t.content, transformedClasses |-> t.transformedClasses,
     changesCount |-> Len(t.transformedClasses)]

PassClassStrings ==
    {<<Cls("bg-white")>>, <<Cls("p-4")>>, <<Cls("p-4"), Empty, Cls("p-4")>>,
     <<Cls("bg-white"), Cls("text-black"), Cls("p-4")>>,
     <<Cls("bg-white"), Dark("bg-gray-900")>>, <<Cls("text-black"), Dark("bg-gray-900")>>,
     <<Dark("bg-gray-900"), Cls("p-4")>>}

Segments ==
    {Text} \cup {Attr(c) : c \in PassClassStrings} \cup {Quasi(c) : c \in PassClassStrings}

PassFiles ==
    {[framework |-> "react", ext |-> ".tsx"], [framework |-> "nextjs", ext |-> ".js"],
     [framework |-> "vue", ext |-> ".vue"], [framework |-> "html", ext |-> ".html"],
     [framework |-> "unknown", ext |-> ".jsx"], [framework |-> "unknown", ext |-> ".vue"],
     [framework |-> "unknown", ext |-> ".html"], [framework |-> "unknown", ext |-> ".svelte"]}

NoPass == [content |-> <<>>, transformedClasses |-> <<>>, changesCount |-> 0]
NoPassFile == [framework |-> "unknown", ext |-> ""]

PassInit ==
    /\ catalog = "legacy"
    /\ passFile \in PassFiles
    /\ passParses \in BOOLEAN
    /\ passTheme \in BatchThemes
    /\ passContent \in UNION {[1..n -> Segments] : n \in 0..MaxSegments}
    /\ pass1 = NoPass
    /\ pass2 = NoPass
    /\ passpc = "start"

\* transformFile on the file
FirstPass ==
    /\ passpc = "start"
    /\ pass1' = passResult(transformByFramework(passFile, passContent, passTheme, passParses))
    /\ passpc' = "once"
    /\ UNCHANGED <<notPassVars, passFile, passParses, passTheme, passContent, pass2>>

\* transformFile on the content the first call produced
SecondPass ==
    /\ passpc = "once"
    /\ pass2' = passResult(transformByFramework(passFile, pass1.content, passTheme, passParses))
    /\ passpc' = "twice"
    /\ UNCHANGED <<notPassVars, passFile, passParses, passTheme, passContent, pass1>>

-----------------------------------------------------------------------------
(* templates: the generated two-state ThemeToggle (vanilla class, React    *)
(* component, Vue component) in a page with one toggle.  localStorage is   *)
(* shared with whatever ran on the origin before; the three-state          *)
(* ProfessionalThemeToggle of the same templates stores 'system' under the *)
(* same key.                                                               *)

\* localStorage.getItem('theme') === null
NoItem == "null"

SavedThemes == {NoItem, "light", "dark", "system"}

ToggleKinds == {"vanilla", "react", "vue"}

\* updateTheme(newTheme): the root class list and the stored item
updateTheme(newTheme) == [rootDark |-> newTheme = "dark", stored |-> newTheme]

\* savedTheme || (prefersDark ? 'dark' : 'light')
initialTheme(saved, dark) ==
    IF saved # NoItem THEN saved ELSE IF dark THEN "dark" ELSE "light"

\* theme === 'light' ? 'dark' : 'light'
toggled(theme) == IF theme = "light" THEN "dark" ELSE "light"

ToggleInit ==
    /\ tgKind \in ToggleKinds
    /\ storedTheme \in SavedThemes
    /\ prefersDark \in BOOLEAN
    /\ rootDark \in BOOLEAN
    /\ tgTheme = "light"
    /\ tgSaved = NoItem
    /\ prevTheme = "light"
    /\ clicks = 0
    /\ tgpc = "start"

\* init(), the useEffect of the React component, onMounted of the Vue component
InitTheme ==
    /\ tgpc = "start"
    /\ tgSaved' = storedTheme
    /\ tgTheme' = initialTheme(storedTheme, prefersDark)
    /\ rootDark' = updateTheme(tgTheme').rootDark
    /\ storedTheme' = updateTheme(tgTheme').stored
    /\ tgpc' = "ready"
    /\ UNCHANGED <<notToggleVars, tgKind, prefersDark, prevTheme, clicks>>

\* toggle() / toggleTheme() on a click
ToggleTheme ==
    /\ tgpc = "ready"
    /\ clicks < MaxClicks
    /\ prevTheme' = tgTheme
    /\ tgTheme' = toggled(tgTheme)
    /\ rootDark' = updateTheme(tgTheme').rootDark
    /\ storedTheme' = updateTheme(tgTheme').stored
    /\ clicks' = clicks + 1
    /\ UNCHANGED <<notToggleVars, tgKind, prefersDark, tgSaved, tgpc>>

\* the system colour scheme changes; only the vanilla class listens
SystemThemeChange ==
    /\ prefersDark' = ~prefersDark
    /\ tgpc # "off"
    /\ IF tgKind = "vanilla" /\ tgpc = "ready" /\ storedTheme = NoItem
       THEN /\ tgTheme' = (IF prefersDark' THEN "dark" ELSE "light")
            /\ rootDark' = updateTheme(tgTheme').rootDark
            /\ storedTheme' = updateTheme(tgTheme').stored
       ELSE UNCHANGED <<tgTheme, rootDark, storedTheme>>
    /\ UNCHANGED <<notToggleVars, tgKind, tgSaved, prevTheme, clicks, tgpc>>

-----------------------------------------------------------------------------
(* autoPlaceThemeToggle on the layout file chooseBestLayout picked.  A     *)
(* React layout is the list of the JSX elements of its one return          *)
(* statement in traversal order, the first being the returned element;     *)
(* each element records how many direct children are the component.  A Vue *)
(* layout has one element, its template, or none.                          *)

Element(name, layoutClasses) == [name |-> name, layoutClasses |-> layoutClasses, toggles |-> 0]

ElementKinds ==
    {Element("html", FALSE), Element("body", FALSE), Element("header", FALSE),
     Element("div", FALSE), Element("div", TRUE)}

ReactLayouts ==
    [vue : {FALSE}, type : {"app-router", "layout"}, importExists : {FALSE},
     elems : UNION {[1..n -> ElementKinds] : n \in 1..MaxElements}]

VueLayouts ==
    [vue : {TRUE}, type : {"layout"}, importExists : {FALSE},
     elems : {<<>>, <<Element("template", FALSE)>>}]

NoLayout == [vue |-> FALSE, type |-> "none", importExists |-> FALSE, elems |-> <<>>]

AlreadyPresent == "ThemeToggle component appears to already be present in the layout"

NoPlacement == [success |-> FALSE, error |-> "", importAdded |-> FALSE, componentAdded |-> FALSE]

placementFailure(error) ==
    [success |-> FALSE, error |-> error, importAdded |-> FALSE, componentAdded |-> FALSE]

\* hasChildComponent(element, componentName)
hasChildComponent(element) == element.toggles > 0

\* the test of the JSXElement visitor of injectIntoReactFile
isInsertionElement(element, layoutType) ==
    \/ element.name = "header"
    \/ element.name = "div" /\ element.layoutClasses
    \/ layoutType = "app-router" /\ element.name = "body"

\* the elements the JSXElement visitor would push the component into
insertionPoints(l) ==
    {i \in 1..Len(l.elems) :
        isInsertionElement(l.elems[i], l.type) /\ ~hasChildComponent(l.elems[i])}

\* where the component is pushed: the first insertion element without it,
\* else the returned element when it lacks it, else nowhere (0)
pushedInto(l) ==
    IF insertionPoints(l) # {}
    THEN CHOOSE i \in insertionPoints(l) : \A j \in insertionPoints(l) : i <= j
    ELSE IF ~hasChildComponent(l.elems[1]) THEN 1 ELSE 0

withComponent(l, i) ==
    [l EXCEPT !.importExists = TRUE, !.elems[i].toggles = @ + 1]

\* the file and the result of injectIntoReactFile
injectIntoReactFile(l) ==
    IF ~l.importExists \/ pushedInto(l) # 0
    THEN [layout |-> IF pushedInto(l) # 0 THEN withComponent(l, pushedInto(l))
                     ELSE [l EXCEPT !.importExists = TRUE],
          wrote |-> TRUE,
          result |-> [success |-> TRUE, error |-> "", importAdded |-> ~l.importExists,
                      componentAdded |-> pushedInto(l) # 0]]
    ELSE [layout |-> l, wrote |-> FALSE, result |-> placementFailure(AlreadyPresent)]

\* the number of component elements in the layout
RECURSIVE toggleElements(_, _)
toggleElements(l, i) ==
    IF i > Len(l.elems) THEN 0 ELSE l.elems[i].toggles + toggleElements(l, i + 1)

\* the file and the result of injectIntoVueFile
injectIntoVueFile(l) ==
    IF toggleElements(l, 1) > 0
    THEN [layout |-> l, wrote |-> FALSE, result |-> placementFailure(AlreadyPresent)]
    ELSE IF l.elems # <<>>
    THEN [layout |-> withComponent(l, 1), wrote |-> TRUE,
          result |-> [success |-> TRUE, error |-> "", importAdded |-> TRUE,
                      componentAdded |-> TRUE]]
    ELSE [layout |-> l, wrote |-> FALSE,
          result |-> placementFailure("Could not find suitable injection point in Vue file")]

autoPlaceThemeToggle(l) ==
    IF l = NoLayout
    THEN [layout |-> l, wrote |-> FALSE,
          result |-> placementFailure("No suitable layout files found for auto-placement")]
    ELSE IF l.vue THEN injectIntoVueFile(l)
    ELSE injectIntoReactFile(l)

PlaceInit ==
    /\ layout \in ReactLayouts \cup VueLayouts \cup {NoLayout}
    /\ layoutBefore = NoLayout
    /\ placement = NoPlacement
    /\ layoutWrites = 0
    /\ placeRuns = 0

AutoPlaceThemeToggle ==
    /\ placeRuns >= 0 /\ placeRuns < MaxRuns
    /\ layoutBefore' = layout
    /\ layout' = autoPlaceThemeToggle(layout).layout
    /\ placement' = autoPlaceThemeToggle(layout).result
    /\ layoutWrites' = layoutWrites + (IF autoPlaceThemeToggle(layout).wrote THEN 1 ELSE 0)
    /\ placeRuns' = placeRuns + 1
    /\ UNCHANGED notPlaceVars

-----------------------------------------------------------------------------
(* Specifications *)

ClsIdle ==
    /\ input = <<>> /\ themeA = NoTheme /\ themeB = NoTheme
    /\ out1 = <<>> /\ out2 = <<>> /\ out3 = <<>> /\ cpc = "off"

BatchIdle == files = <<>> /\ batchTheme = NoTheme /\ bpc = "off"

NoDisk == disk = [p \in Paths |-> Missing] /\ summary = NoSummary

CfgIdle ==
    /\ cfgArgs = [configPath |-> FALSE, cssFile |-> FALSE, version |-> "unknown"]
    /\ ret1 = "none" /\ ret2 = "none" /\ cfgpc = "off"

NoConfig == configFile = Missing /\ cssFile = Missing

CmdIdle ==
    /\ opts = NoOptions /\ framework = "unknown" /\ analysis = NoAnalysis
    /\ backups = NoBackup /\ toggleFile = FALSE /\ layoutPatched = FALSE
    /\ commits = 0 /\ cmdpc = "off"

ParserIdle ==
    /\ commandString = <<>> /\ parsed = NoParsed /\ validation = NoValidation
    /\ ppc = "off"

BrandIdle ==
    /\ brandFiles = <<>> /\ brandColorMap = <<>> /\ processedColors = <<>>
    /\ brandProfile = NoProfile /\ brandpc = "off"

ClassifierIdle ==
    features = NoFeatures /\ archetype = "none" /\ designConfidence = 0 /\ clfpc = "off"

RecommenderIdle ==
    /\ recProfile = NoProfile /\ recArchetype = "none" /\ themeScores = <<>>
    /\ recommendation = NoRecommendation /\ recpc = "off"

ValidatorIdle ==
    /\ valTheme = NoThemeArg /\ scoreArg = 0 /\ gradeOut = "none"
    /\ valResult = NoValidationResult /\ vpc = "off"

WizardIdle ==
    /\ proceed = "none" /\ handledExistingSetup = FALSE /\ midAction = "none" /\ wizpc = "off"

PassIdle ==
    /\ passFile = NoPassFile /\ passParses = FALSE /\ passTheme = NoTheme /\ passContent = <<>>
    /\ pass1 = NoPass /\ pass2 = NoPass /\ passpc = "off"

ToggleIdle ==
    /\ tgKind = "none" /\ storedTheme = NoItem /\ prefersDark = FALSE /\ rootDark = FALSE
    /\ tgTheme = "light" /\ tgSaved = NoItem /\ prevTheme = "light" /\ clicks = 0 /\ tgpc = "off"

PlaceIdle ==
    /\ layout = NoLayout /\ layoutBefore = NoLayout /\ placement = NoPlacement
    /\ layoutWrites = 0 /\ placeRuns = -1

LibIdle == ParserIdle /\ BrandIdle /\ ClassifierIdle /\ RecommenderIdle /\ ValidatorIdle /\ WizardIdle /\ PassIdle /\ ToggleIdle /\ PlaceIdle

CoreIdle ==
    /\ catalog = "legacy" /\ ClsIdle /\ BatchIdle /\ NoDisk /\ CfgIdle /\ NoConfig
    /\ CmdIdle

InitClasses ==
    ClsInit /\ BatchIdle /\ NoDisk /\ CfgIdle /\ NoConfig /\ CmdIdle /\ LibIdle

InitBatch == BatchInit /\ ClsIdle /\ CfgIdle /\ NoConfig /\ CmdIdle /\ LibIdle

InitConfig ==
    CfgInit /\ catalog = "legacy" /\ ClsIdle /\ BatchIdle /\ NoDisk /\ CmdIdle /\ LibIdle

InitCommand == CmdInit /\ ClsIdle /\ BatchIdle /\ CfgIdle /\ LibIdle

InitParser == ParserInit /\ CoreIdle /\ BrandIdle /\ ClassifierIdle /\ RecommenderIdle /\ ValidatorIdle /\ WizardIdle /\ PassIdle /\ ToggleIdle /\ PlaceIdle

InitBrand == BrandInit /\ CoreIdle /\ ParserIdle /\ ClassifierIdle /\ RecommenderIdle /\ ValidatorIdle /\ WizardIdle /\ PassIdle /\ ToggleIdle /\ PlaceIdle

InitClassifier == ClassifierInit /\ CoreIdle /\ ParserIdle /\ BrandIdle /\ RecommenderIdle /\ ValidatorIdle /\ WizardIdle /\ PassIdle /\ ToggleIdle /\ PlaceIdle

InitRecommender ==
    /\ RecommenderInit /\ ClsIdle /\ BatchIdle /\ NoDisk /\ CfgIdle /\ NoConfig /\ CmdIdle
    /\ ParserIdle /\ BrandIdle /\ ClassifierIdle /\ ValidatorIdle /\ WizardIdle /\ PassIdle /\ ToggleIdle /\ PlaceIdle

InitValidator == ValidatorInit /\ CoreIdle /\ ParserIdle /\ BrandIdle /\ ClassifierIdle /\ RecommenderIdle /\ WizardIdle /\ PassIdle /\ ToggleIdle /\ PlaceIdle

InitWizard ==
    /\ WizardInit /\ ClsIdle /\ BatchIdle /\ CfgIdle
    /\ ParserIdle /\ BrandIdle /\ ClassifierIdle /\ RecommenderIdle /\ ValidatorIdle /\ PassIdle /\ ToggleIdle /\ PlaceIdle

InitPass == PassInit /\ CoreIdle /\ ParserIdle /\ BrandIdle /\ ClassifierIdle /\ RecommenderIdle /\ ValidatorIdle /\ WizardIdle /\ ToggleIdle /\ PlaceIdle

InitToggle == ToggleInit /\ CoreIdle /\ ParserIdle /\ BrandIdle /\ ClassifierIdle /\ RecommenderIdle /\ ValidatorIdle /\ WizardIdle /\ PassIdle /\ PlaceIdle

InitPlace == PlaceInit /\ CoreIdle /\ ParserIdle /\ BrandIdle /\ ClassifierIdle /\ RecommenderIdle /\ ValidatorIdle /\ WizardIdle /\ PassIdle /\ ToggleIdle

InitConfidence == InitClassifier \/ InitBrand

NextClasses == TransformOnce \/ TransformTwice \/ TransformThrice

NextBatch == TransformFiles \/ ApplyTransformations

NextConfig == UpdateConfigFirst \/ UpdateConfigSecond

NextCommand ==
    \/ CmdValidate \/ CmdAnalyze \/ CmdBackup \/ CmdDryRun \/ CmdTransform
    \/ CmdApply \/ CmdUpdateConfig \/ CmdGenerate \/ CmdAutoPlace \/ CmdCommit

NextParser == ParseCommand \/ ValidateCommand

NextBrand == ExtractColors \/ ProcessExtractedColors \/ CreateBrandProfile

NextClassifier == ClassifyArchetype \/ CalculateConfidence

NextRecommender == ScoreThemes \/ RecommendTheme

NextPlace == AutoPlaceThemeToggle

NextToggle == InitTheme \/ ToggleTheme \/ SystemThemeChange

NextPass == FirstPass \/ SecondPass

NextWizard ==
    \/ CheckExistingSetup \/ CollectOptions \/ CheckForMidProcessDarkMode
    \/ ImplementDarkMode \/ ShowSuccess
    \/ CmdValidate \/ CmdAnalyze \/ CmdBackup \/ CmdTransform
    \/ CmdApply \/ CmdUpdateConfig \/ CmdGenerate \/ CmdAutoPlace \/ CmdCommit

NextValidator == GetGradeFromScore \/ ValidateSingleTheme

NextConfidence ==
    \/ ClassifyArchetype \/ CalculateConfidence
    \/ ExtractColors \/ ProcessExtractedColors \/ CreateBrandProfile

\* calls of transformTailwindClasses
SpecClasses == InitClasses /\ [][NextClasses]_vars

\* transformFiles followed by applyTransformations
SpecBatch == InitBatch /\ [][NextBatch]_vars

\* two calls of updateTailwindConfig
SpecConfig == InitConfig /\ [][NextConfig]_vars

\* one run of addDarkModeCommand
SpecCommand == InitCommand /\ [][NextCommand]_vars

\* parseCommand followed by validateCommand
SpecParser == InitParser /\ [][NextParser]_vars

\* one run of extractBrandColors
SpecBrand == InitBrand /\ [][NextBrand]_vars

\* one run of enhanceProjectAnalysis
SpecClassifier == InitClassifier /\ [][NextClassifier]_vars

\* either computation of a confidence
SpecConfidence == InitConfidence /\ [][NextConfidence]_vars

\* one run of recommendTheme, after extraction and classification
SpecRecommender == InitRecommender /\ [][NextRecommender]_vars

\* a call of getGradeFromScore followed by a call of validateSingleTheme
SpecValidator == InitValidator /\ [][NextValidator]_vars

\* DarkModeWizard.start with the addDarkModeCommand run it starts
SpecWizard == InitWizard /\ [][NextWizard]_vars

\* transformFile run twice on one file content
SpecPass == InitPass /\ [][NextPass]_vars

\* one generated two-state theme toggle in a page
SpecToggle == InitToggle /\ [][NextToggle]_vars

\* autoPlaceThemeToggle run repeatedly on one layout file
SpecPlace == InitPlace /\ [][NextPlace]_vars

Init ==
    \/ InitClasses \/ InitBatch \/ InitConfig \/ InitCommand \/ InitParser \/ InitBrand
    \/ InitClassifier \/ InitRecommender \/ InitValidator \/ InitWizard \/ InitPass \/ InitToggle \/ InitPlace

Next ==
    \/ NextClasses \/ NextBatch \/ NextConfig \/ NextCommand \/ NextParser \/ NextBrand
    \/ NextClassifier \/ NextRecommender \/ NextValidator \/ NextWizard \/ NextPass \/ NextToggle \/ NextPlace

Spec == Init /\ [][Next]_vars

-----------------------------------------------------------------------------
(* Properties of the class-string transformer *)

Range(f) == {f[i] : i \in DOMAIN f}

\* C1: with no themeId, transformTailwindClasses is idempotent: a second call
\* on the result of the first returns that result unchanged.
C1_Idempotent ==
    (cpc \in {"twice", "thrice"} /\ themeA = NoTheme /\ themeB = NoTheme)
        => out2 = out1

\* C2: re-theming is stable: for presets A and B, applying B again to
\* transform(transform(s, A), B) yields the same string.
C2_StableRetheming ==
    (cpc = "thrice" /\ hasThemePreset(themeA) /\ hasThemePreset(themeB))
        => out3 = out2

\* the tokens that preset B or the generic table define as replacement of tok
replacementTokens(tok, themeId) ==
    Range(getThemeSpecificMapping(tok, themeId))
        \cup (IF keyOf(tok) \in DOMAIN colorMappings
              THEN Range(genericEntry(keyOf(tok))) ELSE {})

\* C3: switching presets leaves no stale variants: for s without dark: tokens
\* and presets A and B, every token of transform(transform(s, A), B) is a
\* token of s or belongs to the replacement B or the generic table defines
\* for a token of s.
C3_NoStaleVariants ==
    (/\ cpc \in {"twice", "thrice"}
     /\ hasThemePreset(themeA) /\ hasThemePreset(themeB)
     /\ ~hasExistingDarkVariant(input))
        => \A tok \in Range(split(out2)) :
              \/ tok \in Range(split(input))
              \/ \E src \in Range(split(input)) : tok \in replacementTokens(src, themeB)

darkAnnotated(classString) ==
    /\ \A i \in 1..Len(classString) : classString[i] # Empty
    /\ \A i \in 1..Len(classString) :
          isMapped(classString[i]) =>
              /\ i < Len(classString)
              /\ classString[i + 1] = Dark(colorMappings[keyOf(classString[i])])

\* C5: with no themeId an already dark-annotated class string, such as
\* "bg-white dark:bg-gray-900", is returned unchanged.
C5_AnnotatedUnchanged ==
    (cpc = "once" /\ themeA = NoTheme /\ darkAnnotated(input)) => out1 = input

\* C6: a themeId that is no preset of the catalog gives the same string as
\* no themeId at all.
C6_UnknownThemeFallsBack ==
    (cpc = "once" /\ themeA # NoTheme /\ ~hasThemePreset(themeA))
        => out1 = transformTailwindClasses(input, NoTheme)

-----------------------------------------------------------------------------
(* Properties of the batch transformer and the file writer *)

\* C7: transformFiles never aborts on one file's failure: it returns exactly
\* one result per input file, in input order; a file whose transformation
\* throws yields success = false, changesCount = 0 and transformedContent equal
\* to its original content; every other file is still processed; and the
\* summary satisfies successful + failed = totalFiles with totalChanges the sum
\* of the results' changesCount.
C7_BatchNeverAborts ==
    bpc = "transformed" =>
        LET results == summary.results
        IN  /\ Len(results) = Len(files)
            /\ \A i \in 1..Len(files) :
                  /\ results[i].filePath = files[i].path
                  /\ IF transformFileThrows(files[i], disk)
                     THEN /\ results[i].success = FALSE
                          /\ results[i].changesCount = 0
                          /\ results[i].transformedContent = results[i].originalContent
                          /\ results[i].originalContent = files[i].content
                     ELSE results[i] = transformFile(files[i], batchTheme, disk)
            /\ summary.totalFiles = Len(files)
            /\ summary.successfulTransformations
                  = Cardinality({i \in 1..Len(results) : results[i].success})
            /\ summary.successfulTransformations + summary.failedTransformations
                  = summary.totalFiles
            /\ summary.totalChanges = sumChanges(results)

\* transformFiles has returned for two files: the first threw, the second was
\* still transformed and changed
C7_Witness ==
    /\ bpc = "transformed"
    /\ Len(files) = 2
    /\ transformFileThrows(files[1], disk)
    /\ ~summary.results[1].success
    /\ summary.results[2].success
    /\ summary.results[2].changesCount > 0
    /\ summary.failedTransformations = 1

\* C8: applyTransformations writes transformedContent to a result's path only
\* when that result succeeded with changesCount > 0: every file that differs
\* after the call holds the transformedContent of such a result, and every
\* other file is left untouched.
C8_WritesOnlyChanged ==
    [][(bpc = "transformed" /\ bpc' = "applied") =>
          \A p \in Paths :
              disk'[p] # disk[p] =>
                  \E i \in 1..Len(summary.results) :
                      /\ summary.results[i].filePath = p
                      /\ summary.results[i].success
                      /\ summary.results[i].changesCount > 0
                      /\ disk'[p] = [exists |-> TRUE,
                                     content |-> summary.results[i].transformedContent]]_vars

\* applyTransformations has run on a failed result whose file is still absent
\* and a changed result whose file now holds the transformed content
C8_Witness ==
    /\ bpc = "applied"
    /\ Len(summary.results) = 2
    /\ ~summary.results[1].success
    /\ ~disk[summary.results[1].filePath].exists
    /\ summary.results[2].changesCount > 0
    /\ summary.results[2].transformedContent # summary.results[2].originalContent
    /\ disk[summary.results[2].filePath]
          = [exists |-> TRUE, content |-> summary.results[2].transformedContent]

-----------------------------------------------------------------------------
(* Properties of the add-dark-mode command *)

\* C9: with --dry-run, addDarkModeCommand only previews: whatever the other
\* options, no step creates or modifies a file under the project (component
\* files, Tailwind config, stylesheet, toggle component, layout, backup
\* directory) and no git commit is made.
C9_DryRunWritesNothing ==
    [][opts.dryRun =>
          /\ disk' = disk
          /\ configFile' = configFile
          /\ cssFile' = cssFile
          /\ toggleFile' = toggleFile
          /\ layoutPatched' = layoutPatched
          /\ backups' = backups
          /\ commits' = commits]_vars

-----------------------------------------------------------------------------
(* Properties of the Tailwind configuration patcher *)

\* C10: updateTailwindConfig returns true exactly when it modified the target
\* file, and a second call on the file a first call left returns false and
\* leaves the file unchanged, for the v3 config file and the v4 stylesheet.
C10_ConfigIdempotent ==
    [][/\ (cfgpc = "start" /\ cfgpc' = "once") =>
             (ret1' = "true" <=> <<configFile', cssFile'>> # <<configFile, cssFile>>)
       /\ (cfgpc = "once" /\ cfgpc' = "twice") =>
             /\ ret2' = "true" <=> <<configFile', cssFile'>> # <<configFile, cssFile>>
             /\ ret1 \in {"true", "false"} =>
                   /\ ret2' = "false"
                   /\ <<configFile', cssFile'>> = <<configFile, cssFile>>]_vars

\* a first call has inserted darkMode into a v3 config file and a second call
\* has returned false
C10_Witness ==
    /\ cfgpc = "twice"
    /\ cfgArgs.version = "v3"
    /\ ret1 = "true"
    /\ ret2 = "false"
    /\ configFile.exists
    /\ includesAny(configFile.content, {DarkModeClass})

\* the file updateTailwindConfig(configPath, cssFile, version) works on
configTarget(args, cfgF, cssF) ==
    IF args.version = "v4" /\ args.cssFile THEN cssF
    ELSE IF args.version = "v3" /\ args.configPath THEN cfgF
    ELSE Missing

\* C11: a missing configuration target is reported differently from "already
\* enabled": updateTailwindConfig raises an error when no config file or
\* stylesheet exists for the detected version, and whenever it returns false
\* the scanner's checkDarkModeEnabled holds for the target file.
C11_FalseMeansEnabled ==
    cfgpc = "once" =>
        /\ ~configTarget(cfgArgs, configFile, cssFile).exists => ret1 = "throws"
        /\ ret1 = "false" =>
              checkDarkModeEnabled(configFile, cssFile, cfgArgs.version)

\* a Tailwind v4 project configured only through CSS: a stylesheet with the
\* tailwindcss import and no tailwind.config.* file
cssOnlyProject ==
    /\ ~configFile.exists
    /\ cssFile.exists
    /\ includesAny(cssFile.content, {ImportDQ, ImportSQ})

\* C12: a Tailwind v4 project configured only through CSS is supported:
\* validateProject reports it valid (the command does not exit with status 1),
\* and a run that reaches the end has added the @custom-variant dark line to
\* the stylesheet.
C12_CssOnlySupported ==
    cssOnlyProject =>
        /\ cmdpc \notin {"exit1"}
        /\ cmdpc = "done" => includesAny(cssFile.content, {darkVariant})

-----------------------------------------------------------------------------
(* Properties of the command parser *)

\* the action the README documents for each of its commands
documentedAction(words) ==
    IF words = <<"scan", "project">> THEN "scan"
    ELSE IF words \in {<<"check", "status">>, <<"status">>} THEN "status"
    ELSE IF words = <<"help">> THEN "help"
    ELSE "add-dark-mode"

\* C13: every natural-language command shown in the README parses to the
\* action it documents, none parses to unknown, and validateCommand accepts it.
C13_ReadmeCommandsDispatch ==
    commandString \in ReadmeCommands =>
        /\ ppc \in {"parsed", "validated"} =>
              /\ parsed.action = documentedAction(commandString)
              /\ parsed.action # "unknown"
        /\ ppc = "validated" => validation.valid

\* the colour value a literal stands for
colourValue(l) ==
    IF l \in TailwindBrandClasses THEN tailwindClassToHex(l) ELSE normalizeColor(l)

\* how often a colour value occurs in the scanned texts
occurrences(projectFiles, value) ==
    Cardinality({p \in {<<f, i>> : f \in 1..Len(projectFiles), i \in 1..(MaxLiterals + 20)} :
                    /\ p[2] <= Len(projectFiles[p[1]])
                    /\ colourValue(projectFiles[p[1]][p[2]]) = value})

paletteColours(profile) == {profile.palette[i].color : i \in 1..Len(profile.palette)}

\* the literal colours that pass the saturation and luminance thresholds
qualifyingValues == {normalizeColor(l) : l \in {x \in HexLiterals \cup RgbLiterals : isValidBrandColor(x)}}

\* C14: a colour value occurring fewer than minUsage times is never in the
\* returned palette; a literal colour with usage >= 2, saturation >= 0.2 and
\* luminance strictly between 0.1 and 0.9 always is; with `#8b5cf6` used 5
\* times and `#111111` used 20 times, `#111111` is excluded and `#8b5cf6` is
\* primary.
C14_ThresholdLaw ==
    brandpc = "done" =>
        /\ \A l \in Literals :
              occurrences(brandFiles, colourValue(l)) < minUsage
                  => colourValue(l) \notin paletteColours(brandProfile)
        /\ \A v \in qualifyingValues :
              occurrences(brandFiles, v) >= minUsage => v \in paletteColours(brandProfile)
        /\ brandFiles = ScenarioProject =>
              /\ "#111111" \notin paletteColours(brandProfile)
              /\ brandProfile.primary.color = "#8b5cf6"

C14_Witness ==
    /\ brandpc = "done"
    /\ \E v \in qualifyingValues :
          occurrences(brandFiles, v) = minUsage - 1 /\ v \notin paletteColours(brandProfile)
    /\ \E v \in qualifyingValues :
          occurrences(brandFiles, v) = minUsage /\ v \in paletteColours(brandProfile)

\* usage x saturation, the sort key
sortKey(c) == c.usage * c.saturation

\* C15: in every returned profile the palette is in descending order of
\* usage x saturation, primary is palette[0] when the palette is non-empty and
\* secondary is palette[1] when it has at least two entries.
C15_PaletteSorted ==
    brandpc = "done" =>
        /\ \A i, j \in 1..Len(brandProfile.palette) :
              i < j => sortKey(brandProfile.palette[i]) >= sortKey(brandProfile.palette[j])
        /\ Len(brandProfile.palette) >= 1 => brandProfile.primary = brandProfile.palette[1]
        /\ Len(brandProfile.palette) >= 2 => brandProfile.secondary = brandProfile.palette[2]

C15_Witness ==
    /\ brandpc = "done"
    /\ Len(brandProfile.palette) >= 2
    /\ brandColorMap[1].color # brandProfile.palette[1].color
    /\ sortKey(brandProfile.palette[1]) > sortKey(brandProfile.palette[2])

\* C16: the palette of every returned profile has at most 5 entries, however
\* many distinct qualifying colours the project contains.
C16_PaletteAtMostFive ==
    brandpc = "done" => Len(brandProfile.palette) <= 5

\* no colour of the project passes the thresholds with usage >= minUsage
zeroQualifying(projectFiles) ==
    \A v \in qualifyingValues : occurrences(projectFiles, v) < minUsage

\* the files hold a literal chroma cannot parse
hasUnparseable(projectFiles) ==
    \E f \in 1..Len(projectFiles) : \E i \in 1..Len(projectFiles[f]) :
        projectFiles[f][i] \in HexLiterals /\ chromaThrows(projectFiles[f][i])

\* C17: extraction never throws on poor input: with zero qualifying colours
\* it returns primary, secondary and accent null, an empty palette, temperature
\* 'neutral' and confidence 0; a colour literal that fails to parse is skipped
\* and the remaining literals are still extracted.
C17_PoorInputTolerated ==
    /\ brandpc # "throws"
    /\ brandpc = "done" /\ zeroQualifying(brandFiles) =>
          /\ brandProfile.primary = NoColor /\ brandProfile.secondary = NoColor
          /\ brandProfile.accent = NoColor /\ brandProfile.palette = <<>>
          /\ brandProfile.temperature = "neutral" /\ brandProfile.confidence = 0
    /\ brandpc = "done" /\ hasUnparseable(brandFiles) =>
          /\ \A l \in HexLiterals : chromaThrows(l) => l \notin paletteColours(brandProfile)
          /\ \A v \in qualifyingValues :
                (occurrences(brandFiles, v) >= minUsage) = (v \in paletteColours(brandProfile))

C17_Witness ==
    /\ brandpc = "done"
    /\ \E f \in 1..Len(brandFiles) : \E i, j \in 1..Len(brandFiles[f]) :
          /\ i < j
          /\ brandFiles[f][i] \in HexLiterals /\ chromaThrows(brandFiles[f][i])
          /\ brandFiles[f][j] \in HexLiterals
          /\ colourValue(brandFiles[f][j]) \in paletteColours(brandProfile)

\* C18: for every feature vector with components in [0,1] the archetype
\* confidence lies within [0,1]; for every set of extracted colours the brand
\* confidence lies within [0,1] and is 0 when there is no primary colour.
C18_ConfidenceBounds ==
    /\ clfpc = "done" => designConfidence >= 0 /\ designConfidence <= 100
    /\ brandpc = "done" =>
          /\ brandProfile.confidence >= 0 /\ brandProfile.confidence <= 9 * Scale
          /\ brandProfile.primary = NoColor => brandProfile.confidence = 0

C18_Witness ==
    /\ clfpc = "done"
    /\ designConfidence = 50
    /\ scoresOf(features)[archetype] > 0
    /\ scoresOf(features)["corporate"] = scoresOf(features)[archetype]
    /\ archetype # "corporate"

\* the first archetype, in the order corporate, modern, developer, creative,
\* whose score no other archetype exceeds
firstGreatest(scores) ==
    archetypes[CHOOSE i \in 1..Len(archetypes) :
        /\ \A j \in 1..Len(archetypes) : scores[archetypes[j]] <= scores[archetypes[i]]
        /\ \A j \in 1..(i - 1) : scores[archetypes[j]] < scores[archetypes[i]]]

\* C19: classifyArchetype returns an archetype whose score is greater than or
\* equal to every other archetype's score; among several archetypes with the
\* greatest score it returns the first in the order corporate, modern,
\* developer, creative; the vector {colorComplexity 0.2, spacingPatterns 0.9,
\* typographyVariance 0.1, componentComplexity 0.2} is corporate with score 1.0.
C19_FirstGreatestWins ==
    clfpc \in {"classified", "done"} =>
        /\ \A k \in DOMAIN scoresOf(features) :
              scoresOf(features)[archetype] >= scoresOf(features)[k]
        /\ archetype = firstGreatest(scoresOf(features))
        /\ (/\ features.colorComplexity = 20 /\ features.spacingPatterns = 90
            /\ features.typographyVariance = 10 /\ features.componentComplexity = 20)
              => archetype = "corporate" /\ scoreCorporate(features) = 100

\* C20: recommendTheme scores every catalog preset as 0.4 brandMatch + 0.35
\* archetypeMatch + 0.25 accessibilityScore; `recommended` has a score greater
\* than or equal to every other preset's; `alternatives` is exactly the next
\* three presets in descending score order, none equal to the recommended one.
C20_RecommendedIsBest ==
    recpc = "done" =>
        /\ {s.themeId : s \in Range(themeScores)} = {t.id : t \in Range(getAllThemePresets)}
        /\ Len(themeScores) = Len(getAllThemePresets)
        /\ \A s \in Range(themeScores) :
              /\ s.score = 40 * s.brandMatch + 35 * s.archetypeMatch + 25 * s.accessibilityScore
              /\ s.score <= recommendation.recommended.score
        /\ Len(recommendation.alternatives) = 3
        /\ \A i \in 1..3 :
              /\ recommendation.alternatives[i].themeId # recommendation.recommended.themeId
              /\ \A j \in 1..3 :
                    i < j => /\ recommendation.alternatives[i].score
                                  >= recommendation.alternatives[j].score
                             /\ recommendation.alternatives[i].themeId
                                  # recommendation.alternatives[j].themeId
              /\ \A s \in Range(themeScores) :
                    (s.themeId \notin {recommendation.recommended.themeId}
                        \cup {recommendation.alternatives[k].themeId : k \in 1..3})
                        => s.score <= recommendation.alternatives[i].score

C20_Witness ==
    /\ recpc = "done"
    /\ recProfile.primary # NoColor
    /\ recommendation.recommended.themeId # getAllThemePresets[1].id
    /\ recommendation.recommended.score > recommendation.alternatives[1].score
    /\ recommendation.alternatives[1].score > recommendation.alternatives[3].score

\* the grades from worst to best
gradeRank(grade) ==
    CHOOSE i \in 1..8 : <<"F", "D", "C", "C+", "B", "B+", "A", "A+">>[i] = grade

\* the documented band of a score
gradeBand(score) ==
    IF score >= 97 THEN "A+" ELSE IF score >= 93 THEN "A" ELSE IF score >= 90 THEN "B+"
    ELSE IF score >= 87 THEN "B" ELSE IF score >= 83 THEN "C+" ELSE IF score >= 80 THEN "C"
    ELSE IF score >= 70 THEN "D" ELSE "F"

\* C21: getGradeFromScore gives every integer score in [0,100] the grade of
\* its band (>=97 A+, >=93 A, >=90 B+, >=87 B, >=83 C+, >=80 C, >=70 D, else
\* F), the grade never gets worse as the score increases, and in every
\* validation result passed is true exactly when score >= 80 (grade C or
\* better), with score = round(100 x passed rules / total rules).
C21_ScoreGradeConsistent ==
    /\ vpc \in {"graded", "done"} =>
          /\ gradeOut = gradeBand(scoreArg)
          /\ \A lower \in 0..scoreArg :
                gradeRank(getGradeFromScore(lower)) <= gradeRank(gradeOut)
    /\ vpc = "done" =>
          /\ valResult.passed = (valResult.score >= 80)
          /\ valResult.passed = (gradeRank(valResult.grade) >= gradeRank("C"))
          /\ 2 * Len(THEME_QUALITY_RULES) * valResult.score
                <= 200 * (Len(THEME_QUALITY_RULES) - Len(valResult.issues))
                   + Len(THEME_QUALITY_RULES)
          /\ 2 * Len(THEME_QUALITY_RULES) * valResult.score
                > 200 * (Len(THEME_QUALITY_RULES) - Len(valResult.issues))
                  - Len(THEME_QUALITY_RULES)

C21_Witness ==
    /\ vpc = "done"
    /\ scoreArg = 83 /\ gradeOut = "C+"
    /\ valResult.score = 83 /\ valResult.passed /\ Len(valResult.issues) = 1

\* the measured light-mode text contrast of the validated preset
lightTextRatio == calculateContrastRatio(valTheme.light.foreground, valTheme.light.background)

\* C22: for every preset whose light-mode foreground/background contrast is
\* below 4.5, validateSingleTheme returns passed = false, includes an issue of
\* severity 'error' whose message contains the measured ratio, and assigns a
\* grade no better than D.
C22_LowContrastFails ==
    vpc = "done" /\ lightTextRatio < 450 =>
        /\ ~valResult.passed
        /\ \E i \in 1..Len(valResult.issues) :
              /\ valResult.issues[i].severity = "error"
              /\ Len(valResult.issues[i].message) = 3
              /\ valResult.issues[i].message[2] = toFixed1(lightTextRatio)
        /\ gradeRank(valResult.grade) <= gradeRank("D")

\* the utility a class name styles: the part before its first hyphen
utilityOf ==
    "bg-white" :> "bg" @@ "bg-gray-900" :> "bg" @@ "text-gray-900" :> "text"
    @@ "text-gray-700" :> "text" @@ "text-black" :> "text" @@ "p-4" :> "p"

\* next is a `dark:` token for the utility the base token styles
isCounterpart(base, next) ==
    /\ startsWithDark(next) /\ Len(next) = 2 /\ Len(base) = 1
    /\ utilityOf[next[2]] = utilityOf[base[1]]

\* the documented walk: a pair is consumed only when the follower is the
\* counterpart of the mappable base token
RECURSIVE pairwiseWalk(_, _, _)
pairwiseWalk(classes, i, themeId) ==
    IF i > Len(classes) THEN <<>>
    ELSE IF ~startsWithDark(classes[i]) /\ getThemeSpecificMapping(classes[i], themeId) # <<>>
    THEN <<getThemeSpecificMapping(classes[i], themeId)>>
         \o pairwiseWalk(classes,
                IF i + 1 <= Len(classes) /\ isCounterpart(classes[i], classes[i + 1])
                THEN i + 2 ELSE i + 1, themeId)
    ELSE << <<classes[i]>> >> \o pairwiseWalk(classes, i + 1, themeId)

\* C23: in the re-theming walk (themeId given, string already containing
\* `dark:` tokens) a `dark:` token is dropped only when it is the counterpart of
\* the theme-mappable base token immediately before it, the pair being replaced
\* by the single combined token; a mappable base token without such a follower
\* is replaced by the combined token alone; every other token, including every
\* other `dark:` token, appears unchanged and in order.
C23_OnlyCounterpartDropped ==
    (/\ cpc \in {"once", "twice", "thrice"}
     /\ themeA # NoTheme /\ hasExistingDarkVariant(input))
        => out1 = join(pairwiseWalk(split(input), 1, themeA))

-----------------------------------------------------------------------------
\* the wizard's addDarkModeCommand run got as far as transformFiles
transformationRan == summary # NoSummary

(* C24: the wizard honours the decision made when dark mode is already     *)
(* configured: after 'overwrite' or 'switch' and every later confirmation, *)
(* a wizard that reports success has run the transformation of a valid     *)
(* project; after 'keep', 'exit' or a cancellation no command was started  *)
(* and nothing was transformed.                                            *)
C24_WizardHonoursDecision ==
    /\ (wizpc = "success" /\ proceed \in {"overwrite", "switch"} /\ analysis # NoAnalysis)
          => transformationRan
    /\ wizpc \in {"exited", "cancelled"} => (cmdpc = "off" /\ ~transformationRan)

-----------------------------------------------------------------------------
\* the first call was transformTailwindClass(token, presetId) for a base token
\* that is a case of the switch of presetId
isPresetCase ==
    /\ cpc \in {"once", "twice", "thrice"}
    /\ Len(input) = 1 /\ Len(input[1]) = 1
    /\ hasThemePreset(themeA) /\ themeA \in DOMAIN themeSwitch
    /\ keyOf(input[1]) \in DOMAIN themeSwitch[themeA]

(* C25: for a preset id and a base token that is a case of that preset's   *)
(* switch in getThemeSpecificMapping, the transformation of the token      *)
(* returns the replacement string of that case.                            *)
C25_PresetCaseUsed ==
    isPresetCase => out1 = themeSwitch[themeA][keyOf(input[1])]

-----------------------------------------------------------------------------
\* the palette entries classified as primary, secondary or accent
candidatesOf(palette) ==
    SelectSeq(palette, LAMBDA c : c.type \in {"primary", "secondary", "accent"})

\* the same colours in the opposite order
reversed(colors) == [i \in 1..Len(colors) |-> colors[Len(colors) + 1 - i]]

(* C26: the temperature of a returned profile is a bucket that holds the   *)
(* most colours among the candidates classified primary, secondary or      *)
(* accent, unclassified palette entries not counted, and it is the same    *)
(* bucket for the same colours in another palette order.                   *)
C26_TemperatureMajorityOfCandidates ==
    (brandpc = "done" /\ brandProfile.palette # <<>>) =>
        LET cands == candidatesOf(brandProfile.palette) IN
        /\ \A t \in {"warm", "cool", "neutral"} :
              temperatureCount(cands, brandProfile.temperature) >= temperatureCount(cands, t)
        /\ brandProfile.temperature = analyzeTemperature(reversed(cands))

-----------------------------------------------------------------------------
-----------------------------------------------------------------------------
(* C28: in a generated two-state toggle, after initialisation and after    *)
(* any sequence of toggles the root element has the class dark exactly     *)
(* when the theme is 'dark', localStorage['theme'] equals the theme, each  *)
(* toggle has flipped the theme between light and dark, and a theme saved  *)
(* before initialisation was taken instead of the system preference.       *)
C28_ToggleStateConsistent ==
    tgpc = "ready" =>
        /\ rootDark = (tgTheme = "dark")
        /\ storedTheme = tgTheme
        /\ clicks > 0 => \/ prevTheme = "light" /\ tgTheme = "dark"
                         \/ prevTheme = "dark" /\ tgTheme = "light"
        /\ (clicks = 0 /\ tgSaved # NoItem) => tgTheme = tgSaved

-----------------------------------------------------------------------------
\* the layout contains the component
containsComponent(l) == toggleElements(l, 1) > 0

(* C29: a run of autoPlaceThemeToggle on a layout file that already        *)
(* contains the component fails with 'already present', writes nothing and *)
(* leaves exactly one component element in the layout.                     *)
C29_PlacementNeverDuplicates ==
    (placeRuns >= 1 /\ containsComponent(layoutBefore)) =>
        /\ ~placement.success /\ placement.error = AlreadyPresent
        /\ layout = layoutBefore
        /\ toggleElements(layout, 1) = 1

-----------------------------------------------------------------------------
\* the ids of the catalog of themes/presets (v0, supabase, linear, openai, custom)
presetIds == DOMAIN professionalPresets

(* C30: for every preset id of the catalog, the follow-up command          *)
(* 'add dark mode with <id> theme' parses to the action add-dark-mode with *)
(* options.theme equal to the id; and every theme the parser extracts is   *)
(* the id of a preset of the catalog.                                      *)
C30_FollowUpRoundTrips ==
    ppc \in {"parsed", "validated"} =>
        /\ \A id \in presetIds :
              commandString = followUpCommand(id) =>
                  parsed.action = "add-dark-mode" /\ parsed.options.theme = id
        /\ parsed.options.theme # "" => parsed.options.theme \in presetIds

====
